---- MODULE Spec2Model ----
(***************************************************************************)
(* SECL expression compiler (package eval of pkg/security/secl/compiler):  *)
(* identifier resolution with registers (extractField, identToEvaluator),  *)
(* the operator-override wrappers and the comparison dispatch of           *)
(* nodeToEvaluator.                                                        *)
(*                                                                         *)
(* Strings of the program that are taken apart by regular expressions      *)
(* (identifiers, fields) are sequences of tokens: a name segment N("p")    *)
(* or a subscript Sub("_") standing for the text "[_]"; consecutive name   *)
(* segments are separated by a dot.  "p.a[_].f" is                         *)
(* <<N("p"), N("a"), Sub("_"), N("f")>>, the empty string is <<>>.         *)
(***************************************************************************)
EXTENDS Integers, Sequences, FiniteSets, TLC

\* the SECL compiler: the State being compiled on and the last call made
VARIABLES registersInfo, fields, last

\* the EVP proxy: the call of RoundTrip and what came of it
VARIABLES evpCall, evpResult

\* the network state: ns.clients, ns.telemetry, the http.RequestStats
\* objects that the clients' maps and the returned Deltas point to, the last
\* call and its return
VARIABLES clients, telemetry, requestStats, netLast

\* the partial uptane client: its fields, the last call and its return
VARIABLES valid, rootVersion, targetsVersion, targetMetas, targetFiles,
          partialLast

\* the evaluators that Opts.Constants and state.macros point to, and the
\* last comparison compiled against one of them
VARIABLES tables, tablesLast

compilerVars == <<registersInfo, fields, last>>

evpVars == <<evpCall, evpResult>>

netVars == <<clients, telemetry, requestStats, netLast>>

partialVars ==
    <<valid, rootVersion, targetsVersion, targetMetas, targetFiles,
      partialLast>>

storeVars == <<tables, tablesLast>>

vars == <<compilerVars, evpVars, netVars, partialVars, storeVars>>

\* the programs of the repository share nothing: while one is run the
\* others stay as they are here
CompilerIdle ==
    /\ registersInfo = <<>>
    /\ fields = {}
    /\ last = [act |-> "none"]

EvpIdle ==
    /\ evpCall = [t |-> "none"]
    /\ evpResult = [status |-> "none"]

NetIdle ==
    /\ clients = [op |-> "none"]
    /\ telemetry = [op |-> "none"]
    /\ requestStats = [op |-> "none"]
    /\ netLast = [op |-> "none"]

PartialIdle ==
    /\ valid = FALSE
    /\ rootVersion = 0
    /\ targetsVersion = 0
    /\ targetMetas = [op |-> "none"]
    /\ targetFiles = <<>>
    /\ partialLast = [op |-> "none"]

StoreIdle ==
    /\ tables = [op |-> "none"]
    /\ tablesLast = [op |-> "none"]

OutsideCompilerIdle == EvpIdle /\ NetIdle /\ PartialIdle /\ StoreIdle

outsideCompiler == <<evpVars, netVars, partialVars, storeVars>>

OutsideEvpIdle == CompilerIdle /\ NetIdle /\ PartialIdle /\ StoreIdle

outsideEvp == <<compilerVars, netVars, partialVars, storeVars>>

OutsideNetIdle == CompilerIdle /\ EvpIdle /\ PartialIdle /\ StoreIdle

outsideNet == <<compilerVars, evpVars, partialVars, storeVars>>

OutsidePartialIdle == CompilerIdle /\ EvpIdle /\ NetIdle /\ StoreIdle

outsidePartial == <<compilerVars, evpVars, netVars, storeVars>>

OutsideStoreIdle == CompilerIdle /\ EvpIdle /\ NetIdle /\ PartialIdle

outsideStore == <<compilerVars, evpVars, netVars, partialVars>>

\* ------------------------------------------------------------------ bounds

\* number of distinct strings RandString(8) can return in the model
NumRandIDs == 2

\* ------------------------------------------------------------------ tokens

N(s) == [t |-> "n", s |-> s]

Sub(s) == [t |-> "s", s |-> s]

Dot(names) == [i \in 1..Len(names) |-> N(names[i])]

SetMin(S) == CHOOSE x \in S : \A y \in S : x <= y

SetMax(S) == CHOOSE x \in S : \A y \in S : x >= y

RemoveAt(seq, j) == SubSeq(seq, 1, j - 1) \o SubSeq(seq, j + 1, Len(seq))

\* ------------------------------------------------------ evaluator values

\* OpOverrides: one optional combinator per wrapper; "" is a nil entry,
\* any other string names the override function stored there.
NoOverrides ==
    [StringEquals |-> "", StringArrayContains |-> "",
     StringValuesContains |-> "", StringArrayMatches |-> ""]

\* A leaf evaluator (*BoolEvaluator, *StringEvaluator, ...): kind is its Go
\* type, fn tells whether EvalFnc is set, vt is ValueType, val is the value
\* it yields in the context under consideration (Value for a literal).
Leaf(kind, fn, vt, ov, val) ==
    [node |-> "leaf", kind |-> kind, fn |-> fn, vt |-> vt, ov |-> ov,
     val |-> val, dur |-> FALSE, field |-> <<>>, reg |-> ""]

\* the nil evaluator returned next to an error
NilEval == [node |-> "nil", kind |-> "nil"]

\* ------------------------------------------------------- host environment

\* strings RandString(8) may return
RandNames == <<"r1", "r2", "r3", "r4">>

RandIDs == {RandNames[i] : i \in 1..NumRandIDs}

\* Model.GetIterator answers for these fields
Iterators == {Dot(<<"p", "a">>), Dot(<<"p", "b">>)}

\* Model.GetEvaluator answers for these fields, with an accessor of this kind
FieldKind ==
    (Dot(<<"p", "a", "f">>) :> "String") @@
    (Dot(<<"p", "a", "g">>) :> "Int") @@
    (Dot(<<"p", "b", "g">>) :> "Int") @@
    (Dot(<<"p", "n">>) :> "String") @@
    (Dot(<<"p", "ok">>) :> "Bool") @@
    (Dot(<<"p", "l">>) :> "StringArray") @@
    (Dot(<<"p", "m">>) :> "Int")

\* Opts.LegacyFields
LegacyFields ==
    (Dot(<<"l", "f">>) :> Dot(<<"p", "a", "f">>)) @@
    (Dot(<<"l", "n">>) :> Dot(<<"p", "n">>)) @@
    (Dot(<<"l", "a">>) :> Dot(<<"p", "a">>)) @@
    (Dot(<<"l", "a", "f">>) :> Dot(<<"p", "a", "f">>))

\* Opts.Constants
Constants ==
    (Dot(<<"K">>) :> Leaf("Int", FALSE, "Scalar", NoOverrides, <<"2">>)) @@
    (Dot(<<"KM">>) :> Leaf("Int", FALSE, "Scalar", NoOverrides, <<"1">>)) @@
    (Dot(<<"KS">>) :> Leaf("String", FALSE, "Scalar", NoOverrides, <<"ab*">>))

\* state.macros
Macros ==
    (Dot(<<"M">>) :> Leaf("Bool", TRUE, "Scalar", NoOverrides, <<"true">>)) @@
    (Dot(<<"KM">>) :> Leaf("Bool", TRUE, "Scalar", NoOverrides, <<"false">>)) @@
    (Dot(<<"p", "m">>) :>
        Leaf("StringArray", TRUE, "Scalar", NoOverrides, <<"abc">>)) @@
    (Dot(<<"MS">>) :> Leaf("String", FALSE, "Scalar", NoOverrides, <<"ab*">>))

GetIterator(field) == field \in Iterators

GetEvaluatorOk(field) == field \in DOMAIN FieldKind

GetEvaluator(field, regID) ==
    [Leaf(FieldKind[field], TRUE, "Scalar", NoOverrides, <<>>)
        EXCEPT !.field = field, !.reg = regID]

\* ------------------------------------------------------------ extractField

\* arraySubscriptFindRE.FindStringSubmatch: the leftmost "[...]" (its text
\* may be empty) and its one group, or nothing
FindStringSubmatch(field) ==
    LET subs == {i \in 1..Len(field) : field[i].t = "s"}
    IN IF subs = {} THEN <<>>
       ELSE <<field[SetMin(subs)], field[SetMin(subs)].s>>

\* position of the subscript arraySubscriptReplaceRE matches, 0 when it does
\* not match: "(.+)" is greedy and needs one character, "[^\]]+" needs one
ReplaceMatch(field) ==
    LET cands == {i \in 2..Len(field) : field[i].t = "s" /\ field[i].s # ""}
    IN IF cands = {} THEN 0 ELSE SetMax(cands)

ExtractField(field) ==
    LET ids == FindStringSubmatch(field)
        j == ReplaceMatch(field)
        resField == IF j = 0 THEN field ELSE RemoveAt(field, j)
        itField == IF j = 0 THEN field ELSE SubSeq(field, 1, j - 1)
    IN CASE Len(ids) = 0 ->
              [field |-> field, itField |-> <<>>, regID |-> "", err |-> ""]
         [] Len(ids) = 2 ->
              [field |-> resField, itField |-> itField, regID |-> ids[2],
               err |-> ""]
         [] OTHER ->
              [field |-> <<>>, itField |-> <<>>, regID |-> "",
               err |-> "WrongRegisterFormat"]

\* -------------------------------------------------------- identToEvaluator

\* the compile-time State as a value
MkState(ri, fs) == [registersInfo |-> ri, fields |-> fs]

\* State.UpdateFields
UpdateFields(st, field) == [st EXCEPT !.fields = @ \cup {field}]

\* the two LegacyFields lookups of identToEvaluator
LegacyRewrite(field, itField) ==
    LET f1 == IF field \in DOMAIN LegacyFields THEN LegacyFields[field]
              ELSE field
        it1 == IF f1 \in DOMAIN LegacyFields THEN LegacyFields[f1]
               ELSE itField
    IN [field |-> f1, itField |-> it1]

\* strings.Split(field, "."), joined again up to each segment in turn
Candidates(field) ==
    LET ends == {k \in 1..Len(field) :
                   k = Len(field) \/ field[k + 1].t = "n"}
    IN [i \in 1..Cardinality(ends) |->
          SubSeq(field, 1,
                 CHOOSE k \in ends : Cardinality({e \in ends : e <= k}) = i)]

\* whether the walk along the path finds an iterator
WalkFindsIterator(field) ==
    \E i \in 1..Len(Candidates(field)) : GetIterator(Candidates(field)[i])

\* a result of identToEvaluator: evaluator, error, State afterwards, the
\* GetEvaluator calls made and the (field, itField, regID) it worked with
IdentResult(ev, err, st, reqs, trips) ==
    [ev |-> ev, err |-> err, st |-> st, reqs |-> reqs, trips |-> trips]

\* RegisterStep taking over a register bound to another iterator field
RegisterStepRebinding(field, itField, regID, rnd, st) ==
    IF regID # "" /\ regID # "_"
    THEN [err |-> "RegisterNameNotAllowed", regID |-> regID, st |-> st]
    ELSE [err |-> "", regID |-> rnd,
          st |-> [st EXCEPT
                    !.registersInfo =
                        (rnd :> [field |-> itField, subFields |-> {field}])
                        @@ @]]

\* RegisterStep accepting a user-written register id
RegisterStepAnyName(field, itField, regID, rnd, st) ==
    LET id == IF regID = "" \/ regID = "_" THEN rnd ELSE regID
    IN IF id \in DOMAIN st.registersInfo
       THEN IF st.registersInfo[id].field # itField
            THEN [err |-> "RegisterMultipleFields", regID |-> id, st |-> st]
            ELSE [err |-> "", regID |-> id,
                  st |-> [st EXCEPT
                            !.registersInfo[id].subFields = @ \cup {field}]]
       ELSE [err |-> "", regID |-> id,
             st |-> [st EXCEPT
                       !.registersInfo =
                           (id :> [field |-> itField, subFields |-> {field}])
                           @@ @]]

\* RegisterStep replacing the sub-fields of an existing register
RegisterStepForgetful(field, itField, regID, rnd, st) ==
    IF regID # "" /\ regID # "_"
    THEN [err |-> "RegisterNameNotAllowed", regID |-> regID, st |-> st]
    ELSE IF rnd \in DOMAIN st.registersInfo
            /\ st.registersInfo[rnd].field # itField
    THEN [err |-> "RegisterMultipleFields", regID |-> rnd, st |-> st]
    ELSE [err |-> "", regID |-> rnd,
          st |-> [st EXCEPT
                    !.registersInfo =
                        (rnd :> [field |-> itField, subFields |-> {field}])
                        @@ @]]

\* the register checks of a user-written or generated register id
RegisterStep(field, itField, regID, rnd, st) ==
    IF regID # "" /\ regID # "_"
    THEN [err |-> "RegisterNameNotAllowed", regID |-> regID, st |-> st]
    ELSE LET id == IF regID = "" \/ regID = "_" THEN rnd ELSE regID
         IN IF id \in DOMAIN st.registersInfo
            THEN IF st.registersInfo[id].field # itField
                 THEN [err |-> "RegisterMultipleFields", regID |-> id,
                       st |-> st]
                 ELSE [err |-> "", regID |-> id,
                       st |-> [st EXCEPT
                                 !.registersInfo[id].subFields =
                                     @ \cup {field}]]
            ELSE [err |-> "", regID |-> id,
                  st |-> [st EXCEPT
                            !.registersInfo =
                                (id :> [field |-> itField,
                                        subFields |-> {field}]) @@ @]]

\* identToEvaluator; rnd is what RandString(8) returns if it is called
\* AccessorStep recording the field before the Model has answered
AccessorStepEager(field, rs, trip) ==
    IF ~GetEvaluatorOk(field)
    THEN IdentResult(NilEval, "FieldNotFound", UpdateFields(rs.st, field),
                     <<<<field, rs.regID>>>>, trip)
    ELSE IdentResult(GetEvaluator(field, rs.regID), "",
                     UpdateFields(rs.st, field),
                     <<<<field, rs.regID>>>>, trip)

\* the end of identToEvaluator: the accessor asked of the Model, and the
\* field recorded once the Model has returned one
AccessorStep(field, rs, trip) ==
    IF ~GetEvaluatorOk(field)
    THEN IdentResult(NilEval, "FieldNotFound", rs.st,
                     <<<<field, rs.regID>>>>, trip)
    ELSE IdentResult(GetEvaluator(field, rs.regID), "",
                     UpdateFields(rs.st, field),
                     <<<<field, rs.regID>>>>, trip)

IdentToEvaluator(ident, st, rnd) ==
    IF ident \in DOMAIN Constants
    THEN IdentResult(Constants[ident], "", st, <<>>, <<>>)
    ELSE IF ident \in DOMAIN Macros
    THEN IdentResult(Macros[ident], "", st, <<>>, <<>>)
    ELSE
    LET ex == ExtractField(ident)
        lg == LegacyRewrite(ex.field, ex.itField)
        field == lg.field
        itField == lg.itField
        itErr == itField # <<>> /\ ~GetIterator(itField)
        hasIt == IF itField # <<>> THEN GetIterator(itField)
                 ELSE WalkFindsIterator(field)
        rs == IF hasIt THEN RegisterStep(field, itField, ex.regID, rnd, st)
              ELSE [err |-> "", regID |-> ex.regID, st |-> st]
        trip == <<[field |-> field, itField |-> itField, regID |-> rs.regID]>>
    IN IF ex.err # ""
       THEN IdentResult(NilEval, ex.err, st, <<>>, <<>>)
       ELSE IF itErr
       THEN IdentResult(NilEval, "IteratorNotFound", st, <<>>, trip)
       ELSE IF rs.err # ""
       THEN IdentResult(NilEval, rs.err, st, <<>>, trip)
       ELSE AccessorStep(field, rs, trip)

\* ------------------------------------------------------------ combinators

\* the evaluator a combinator (or an override standing in for it) builds
\* from its operands; by is "" for the package's own combinator and the
\* override's name otherwise
Comb(name, by, a, b) ==
    [node |-> "comb", kind |-> "Bool", name |-> name, by |-> by,
     a |-> a, b |-> b]

\* Not
NotEval(e) == [node |-> "not", kind |-> "Bool", arg |-> e]

\* And, Or
BoolOp(name, a, b) == [node |-> name, kind |-> "Bool", a |-> a, b |-> b]

\* IntAnd, IntOr, IntXor
IntOp(name, a, b) == [node |-> name, kind |-> "Int", a |-> a, b |-> b]

\* Minus, IntNot
IntUnary(name, a) == [node |-> name, kind |-> "Int", arg |-> a]

IsDuration(e) == e.node = "leaf" /\ e.dur

HasOverride(e, name) == e.node = "leaf" /\ e.ov[name] # ""

StringEqualsWrapper(a, b) ==
    IF HasOverride(a, "StringEquals")
    THEN Comb("StringEquals", a.ov.StringEquals, a, b)
    ELSE IF HasOverride(b, "StringEquals")
    THEN Comb("StringEquals", b.ov.StringEquals, a, b)
    ELSE Comb("StringEquals", "", a, b)

StringArrayContainsWrapper(a, b) ==
    IF HasOverride(a, "StringArrayContains")
    THEN Comb("StringArrayContains", a.ov.StringArrayContains, a, b)
    ELSE IF HasOverride(b, "StringArrayContains")
    THEN Comb("StringArrayContains", b.ov.StringArrayContains, a, b)
    ELSE Comb("StringArrayContains", "", a, b)

StringValuesContainsWrapper(a, b) ==
    IF HasOverride(a, "StringValuesContains")
    THEN Comb("StringValuesContains", a.ov.StringValuesContains, a, b)
    ELSE Comb("StringValuesContains", "", a, b)

StringArrayMatchesWrapper(a, b) ==
    IF HasOverride(a, "StringArrayMatches")
    THEN Comb("StringArrayMatches", a.ov.StringArrayMatches, a, b)
    ELSE Comb("StringArrayMatches", "", a, b)

\* ------------------------------------------- nodeToEvaluator: comparisons

\* the outcome of a comparison: evaluator or error (with the kind a type
\* error expects), and the right-hand evaluator as the compilation left it
CmpOk(ev, next) == [ev |-> ev, err |-> "", ekind |-> "", next |-> next]

CmpErr(err, ekind, next) ==
    [ev |-> NilEval, err |-> err, ekind |-> ekind, next |-> next]

\* NotIfNotin with the negation of "notin" forgotten
NotIfNotinNever(op, ev, next) == CmpOk(ev, next)

\* "notin" negates what "in" builds
NotIfNotin(op, ev, next) ==
    IF op = "notin" THEN CmpOk(NotEval(ev), next) ELSE CmpOk(ev, next)

\* the operators of a CIDRArray against CIDRValues
CIDRArrayMatchesByOp(unary, op, next) ==
    CASE op = "in" -> CmpOk(Comb("CIDRArrayMatches", "", unary, next), next)
      [] op = "allin" ->
           CmpOk(Comb("CIDRArrayMatchesAll", "", unary, next), next)
      [] op = "notin" ->
           CmpOk(NotEval(Comb("CIDRArrayMatches", "", unary, next)), next)
      [] OTHER -> CmpErr("OpUnknown", "", next)

\* CIDRArrayCompare taking any right-hand evaluator for CIDRValues
CIDRArrayCompareAnyNext(unary, op, next) ==
    CIDRArrayMatchesByOp(unary, op, next)

\* case *CIDRArrayEvaluator of the array comparison
CIDRArrayCompare(unary, op, next) ==
    IF next.kind # "CIDRValues" THEN CmpErr("CIDRTypeError", "Array", next)
    ELSE CIDRArrayMatchesByOp(unary, op, next)

\* the obj.ArrayComparison != nil branch, operands already compiled
ArrayCompare(unary, op, next) ==
    CASE unary.kind = "Bool" ->
           IF next.kind = "BoolArray"
           THEN NotIfNotin(op, Comb("ArrayBoolContains", "", unary, next), next)
           ELSE CmpErr("ArrayTypeError", "Bool", next)
      [] unary.kind = "String" ->
           IF next.kind = "StringArray"
           THEN NotIfNotin(op, StringArrayContainsWrapper(unary, next), next)
           ELSE IF next.kind = "StringValues"
           THEN NotIfNotin(op, StringValuesContainsWrapper(unary, next), next)
           ELSE CmpErr("ArrayTypeError", "String", next)
      [] unary.kind = "StringValues" ->
           IF next.kind = "StringArray"
           THEN NotIfNotin(op, StringArrayMatchesWrapper(next, unary), next)
           ELSE CmpErr("ArrayTypeError", "String", next)
      [] unary.kind = "StringArray" ->
           IF next.kind = "StringValues"
           THEN NotIfNotin(op, StringArrayMatchesWrapper(unary, next), next)
           ELSE CmpErr("ArrayTypeError", "String", next)
      [] unary.kind = "Int" ->
           IF next.kind = "IntArray"
           THEN NotIfNotin(op, Comb("IntArrayEquals", "", unary, next), next)
           ELSE CmpErr("ArrayTypeError", "Int", next)
      [] unary.kind = "IntArray" ->
           IF next.kind = "IntArray"
           THEN NotIfNotin(op, Comb("IntArrayMatches", "", unary, next), next)
           ELSE CmpErr("ArrayTypeError", "Int", next)
      [] unary.kind = "CIDR" ->
           LET name == CASE next.kind = "CIDR" -> "CIDREquals"
                         [] next.kind = "CIDRValues" -> "CIDRValuesContains"
                         [] next.kind = "CIDRArray" -> "CIDRArrayContains"
                         [] OTHER -> ""
           IN IF name = "" THEN CmpErr("CIDRTypeError", "Array", next)
              ELSE IF op \in {"in", "allin"}
              THEN CmpOk(Comb(name, "", unary, next), next)
              ELSE IF op = "notin"
              THEN CmpOk(NotEval(Comb(name, "", unary, next)), next)
              ELSE CmpErr("OpUnknown", "", next)
      [] unary.kind = "CIDRArray" -> CIDRArrayCompare(unary, op, next)
      [] unary.kind = "CIDRValues" ->
           IF next.kind = "CIDR"
           THEN IF op \in {"in", "allin"}
                THEN CmpOk(Comb("CIDRValuesContains", "", next, unary), next)
                ELSE IF op = "notin"
                THEN CmpOk(NotEval(Comb("CIDRValuesContains", "", next, unary)),
                           next)
                ELSE CmpErr("OpUnknown", "", next)
           ELSE IF next.kind = "CIDRArray"
           THEN CASE op = "allin" ->
                       CmpOk(Comb("CIDRArrayMatchesAll", "", next, unary), next)
                  [] op = "in" ->
                       CmpOk(Comb("CIDRArrayMatches", "", next, unary), next)
                  [] op = "notin" ->
                       CmpOk(NotEval(Comb("CIDRArrayMatches", "", next, unary)),
                             next)
                  [] OTHER -> CmpErr("OpUnknown", "", next)
           ELSE CmpErr("CIDRTypeError", "Array", next)
      [] OTHER -> CmpErr("TypeError", "Array", next)

\* "!=" and "!~" negate what "==" and "=~" build
NotIfNegated(op, ev, next) ==
    IF op \in {"!=", "!~"} THEN CmpOk(NotEval(ev), next) ELSE CmpOk(ev, next)

\* ForcePattern with the promotion forgotten
ForcePatternNever(nextString) == nextString

\* "force pattern if needed": the right-hand evaluator after "=~" / "!~"
ForcePattern(nextString) ==
    IF nextString.vt = "Scalar" THEN [nextString EXCEPT !.vt = "Pattern"]
    ELSE nextString

\* the integer combinator of an ordering or equality operator
IntCombinator(op) ==
    CASE op = "<" -> "LesserThan"
      [] op = "<=" -> "LesserOrEqualThan"
      [] op = ">" -> "GreaterThan"
      [] op = ">=" -> "GreaterOrEqualThan"
      [] op \in {"==", "!="} -> "IntEquals"
      [] OTHER -> ""

\* the combinator an IntArray on the left uses, operands swapped
SwappedIntArrayCombinator(op) ==
    CASE op = "<" -> "IntArrayGreaterThan"
      [] op = "<=" -> "IntArrayGreaterOrEqualThan"
      [] op = ">" -> "IntArrayLesserThan"
      [] op = ">=" -> "IntArrayLesserOrEqualThan"
      [] op \in {"==", "!="} -> "IntArrayEquals"
      [] OTHER -> ""

\* case *StringEvaluator of the scalar comparison
StringScalarCompare(unary, op, next) ==
    IF next.kind # "String" THEN CmpErr("TypeError", "String", next)
    ELSE IF op \in {"==", "!="}
    THEN NotIfNegated(op, StringEqualsWrapper(unary, next), next)
    ELSE IF op \in {"=~", "!~"}
    THEN IF next.fn THEN CmpErr("NonStaticPattern", "", next)
         ELSE NotIfNegated(op, StringEqualsWrapper(unary, ForcePattern(next)),
                           ForcePattern(next))
    ELSE CmpErr("OpUnknown", "", next)

\* StringArrayScalarCompare without the EvalFnc check of the pattern
StringArrayScalarCompareUnchecked(unary, op, next) ==
    IF next.kind # "String" THEN CmpErr("TypeError", "String", next)
    ELSE IF op \in {"==", "!="}
    THEN NotIfNegated(op, StringArrayContainsWrapper(next, unary), next)
    ELSE IF op \in {"=~", "!~"}
    THEN NotIfNegated(op,
                      StringArrayContainsWrapper(ForcePattern(next), unary),
                      ForcePattern(next))
    ELSE CmpErr("UnknownEntity", "", next)

\* case *StringArrayEvaluator of the scalar comparison
StringArrayScalarCompare(unary, op, next) ==
    IF next.kind # "String" THEN CmpErr("TypeError", "String", next)
    ELSE IF op \in {"==", "!="}
    THEN NotIfNegated(op, StringArrayContainsWrapper(next, unary), next)
    ELSE IF op \in {"=~", "!~"}
    THEN IF next.fn THEN CmpErr("NonStaticPattern", "", next)
         ELSE NotIfNegated(op,
                           StringArrayContainsWrapper(ForcePattern(next), unary),
                           ForcePattern(next))
    ELSE CmpErr("UnknownEntity", "", next)

\* case *IntEvaluator of the scalar comparison
IntScalarCompare(unary, op, next) ==
    IF next.kind = "Int"
    THEN IF IsDuration(next)
         THEN IF op \in {"<", "<=", ">", ">="}
              THEN CmpOk(Comb("Duration" \o IntCombinator(op), "", unary, next),
                         next)
              ELSE CmpErr("TypeError", "Int", next)
         ELSE IF IntCombinator(op) = "" THEN CmpErr("OpUnknown", "", next)
         ELSE NotIfNegated(op, Comb(IntCombinator(op), "", unary, next), next)
    ELSE IF next.kind = "IntArray"
    THEN IF IntCombinator(op) = "" THEN CmpErr("OpUnknown", "", next)
         ELSE NotIfNegated(op,
                           Comb(IF op \in {"==", "!="} THEN "IntArrayEquals"
                                ELSE "IntArray" \o IntCombinator(op),
                                "", unary, next),
                           next)
    ELSE CmpErr("TypeError", "Int", next)

\* the obj.ScalarComparison != nil branch, operands already compiled
ScalarCompare(unary, op, next) ==
    CASE unary.kind = "Bool" ->
           IF next.kind # "Bool" THEN CmpErr("TypeError", "Bool", next)
           ELSE IF op \in {"==", "!="}
           THEN NotIfNegated(op, Comb("BoolEquals", "", unary, next), next)
           ELSE CmpErr("OpUnknown", "", next)
      [] unary.kind = "BoolArray" ->
           IF next.kind # "Bool" THEN CmpErr("TypeError", "Bool", next)
           ELSE IF op \in {"==", "!="}
           THEN NotIfNegated(op, Comb("BoolArrayEquals", "", next, unary), next)
           ELSE CmpErr("OpUnknown", "", next)
      [] unary.kind = "String" -> StringScalarCompare(unary, op, next)
      [] unary.kind = "CIDR" ->
           IF next.kind # "CIDR" THEN CmpErr("UnknownEntity", "", next)
           ELSE IF op \in {"==", "!="}
           THEN NotIfNegated(op, Comb("CIDREquals", "", unary, next), next)
           ELSE CmpErr("OpUnknown", "", next)
      [] unary.kind = "StringArray" -> StringArrayScalarCompare(unary, op, next)
      [] unary.kind = "Int" -> IntScalarCompare(unary, op, next)
      [] unary.kind = "IntArray" ->
           IF next.kind # "Int" THEN CmpErr("TypeError", "Int", next)
           ELSE IF SwappedIntArrayCombinator(op) = ""
           THEN CmpErr("OpUnknown", "", next)
           ELSE NotIfNegated(op,
                             Comb(SwappedIntArrayCombinator(op), "", next, unary),
                             next)
      [] OTHER -> CmpErr("UnknownEntity", "", next)

\* ------------------------------------------------------------- evaluation

Elems(seq) == {seq[i] : i \in 1..Len(seq)}

\* shell-style globbing and regular-expression search on the strings used
PatternMatches(pattern, str) ==
    \/ pattern = str
    \/ pattern = "ab*" /\ str \in {"abc", "ab*"}

\* how a string evaluator of value type vt and text ref matches str
StringMatches(vt, ref, str) ==
    IF vt \in {"Pattern", "Regexp"} THEN PatternMatches(ref, str)
    ELSE ref = str

\* whether the network (or address) net contains the address ip
InNet(net, ip) ==
    \/ net = ip
    \/ net = "10.0.0.0/8" /\ ip \in {"10.5.1.1"}
    \/ net = "192.168.1.0/24" /\ ip \in {}

\* the value of an evaluator built by a combinator of the package
CombEval(name, a, b) ==
    CASE name = "StringEquals" -> StringMatches(b.vt, b.val[1], a.val[1])
      [] name = "StringArrayContains" ->
           \E x \in Elems(b.val) : StringMatches(a.vt, a.val[1], x)
      [] name = "StringValuesContains" -> a.val[1] \in Elems(b.val)
      [] name = "StringArrayMatches" ->
           \E x \in Elems(a.val) : x \in Elems(b.val)
      [] name \in {"IntArrayEquals", "ArrayBoolContains", "BoolArrayEquals"} ->
           a.val[1] \in Elems(b.val)
      [] name = "IntArrayMatches" ->
           \E x \in Elems(a.val) : x \in Elems(b.val)
      [] name \in {"BoolEquals", "IntEquals", "CIDREquals"} ->
           a.val[1] = b.val[1]
      [] name = "CIDRValuesContains" ->
           \E n \in Elems(b.val) : InNet(n, a.val[1])
      [] name = "CIDRArrayContains" ->
           \E x \in Elems(b.val) : InNet(x, a.val[1])
      [] name = "CIDRArrayMatches" ->
           \E x \in Elems(a.val) : \E n \in Elems(b.val) : InNet(n, x)
      [] name = "CIDRArrayMatchesAll" ->
           \A x \in Elems(a.val) : \E n \in Elems(b.val) : InNet(n, x)
      [] OTHER -> FALSE

RECURSIVE Eval(_)

\* BoolEvaluator.Eval in the context that gives the leaves their val
Eval(e) ==
    CASE e.node = "not" -> ~Eval(e.arg)
      [] e.node = "and" -> Eval(e.a) /\ Eval(e.b)
      [] e.node = "or" -> Eval(e.a) \/ Eval(e.b)
      [] e.node = "comb" -> CombEval(e.name, e.a, e.b)
      [] e.node = "leaf" -> e.val = <<"true">>
      [] OTHER -> FALSE

\* ---------------------------------------------------------------- the AST

\* a nil pointer of the AST
NoNode == [type |-> "nil"]

\* ast.Primary with Ident, Number, Duration, String, Pattern, Regexp, IP,
\* CIDR or Variable set (what names the one that is set, val its text)
PrimIdent(ident) ==
    [type |-> "Primary", what |-> "Ident", ident |-> ident, val |-> "",
     sub |-> NoNode]

PrimLit(what, val) ==
    [type |-> "Primary", what |-> what, ident |-> <<>>, val |-> val,
     sub |-> NoNode]

PrimSub(expr) ==
    [type |-> "Primary", what |-> "SubExpression", ident |-> <<>>, val |-> "",
     sub |-> expr]

\* ast.Unary
UnaryNode(op, unary, primary) ==
    [type |-> "Unary", op |-> op, unary |-> unary, primary |-> primary]

\* ast.BitOperation
BitNode(unary, op, next) ==
    [type |-> "BitOperation", unary |-> unary, op |-> op, next |-> next]

\* ast.ScalarComparison
ScalarNode(op, next) == [type |-> "ScalarComparison", op |-> op, next |-> next]

\* ast.ArrayComparison
ArrayCmpNode(op, array) ==
    [type |-> "ArrayComparison", op |-> op, array |-> array]

\* ast.Array
ArrayNode(numbers, stringMembers, ident, variable, cidr, cidrMembers) ==
    [type |-> "Array", numbers |-> numbers, stringMembers |-> stringMembers,
     ident |-> ident, variable |-> variable, cidr |-> cidr,
     cidrMembers |-> cidrMembers]

\* ast.Comparison
ComparisonNode(bit, scalar, array) ==
    [type |-> "Comparison", bit |-> bit, scalar |-> scalar, array |-> array]

\* ast.Expression
ExpressionNode(cmp, op, next) ==
    [type |-> "Expression", cmp |-> cmp, op |-> op, next |-> next]

\* ast.BooleanExpression
BooleanExpressionNode(expr) == [type |-> "BooleanExpression", expr |-> expr]

\* ParseCIDR / AppendCIDR / AppendIP accept these texts
ValidNets == {"10.0.0.0/8", "192.168.1.0/24", "10.5.1.1", "172.16.0.1"}

\* Opts.Variables: the evaluator each variable's GetEvaluator returns
Variables ==
    ("v" :> Leaf("String", TRUE, "Variable", NoOverrides, <<"abc">>)) @@
    ("n" :> Leaf("Int", TRUE, "Scalar", NoOverrides, <<"1">>))

\* -------------------------------------------------------- nodeToEvaluator

\* what a compilation carries along: the State, the strings RandString will
\* return, the GetEvaluator calls made and the resolver triples so far
Thread(st, rnds) == [st |-> st, rnds |-> rnds, reqs |-> <<>>, trips |-> <<>>]

Ok(ev, t) == [ev |-> ev, err |-> "", ekind |-> "", t |-> t]

Fail(err, ekind, t) == [ev |-> NilEval, err |-> err, ekind |-> ekind, t |-> t]

\* identToEvaluator inside a compilation
IdentReturn(r, t2) == IF r.err # "" THEN Fail(r.err, "", t2) ELSE Ok(r.ev, t2)

IdentThread(r, t) ==
    [st |-> r.st, rnds |-> Tail(t.rnds), reqs |-> t.reqs \o r.reqs,
     trips |-> t.trips \o r.trips]

IdentResume(r, t) == IdentReturn(r, IdentThread(r, t))

IdentStep(ident, t) ==
    IdentResume(IdentToEvaluator(ident, t.st, Head(t.rnds)), t)

\* isVariableName and evaluatorFromVariable
EvaluatorFromVariable(varname, t) ==
    IF varname \in DOMAIN Variables THEN Ok(Variables[varname], t)
    ELSE Fail("VariableNotFound", "", t)

\* arrayToEvaluator
ArrayToEvaluator(array, t) ==
    IF Len(array.numbers) # 0
    THEN Ok(Leaf("IntArray", FALSE, "Scalar", NoOverrides, array.numbers), t)
    ELSE IF Len(array.stringMembers) # 0
    THEN Ok(Leaf("StringValues", FALSE, "Scalar", NoOverrides,
                 array.stringMembers), t)
    ELSE IF array.ident # <<>>
    THEN IF array.ident \in DOMAIN Macros THEN Ok(Macros[array.ident], t)
         ELSE IdentStep(array.ident, t)
    ELSE IF array.variable # ""
    THEN EvaluatorFromVariable(array.variable, t)
    ELSE IF array.cidr # ""
    THEN IF array.cidr \in ValidNets
         THEN Ok(Leaf("CIDRValues", FALSE, "IPNet", NoOverrides,
                      <<array.cidr>>), t)
         ELSE Fail("InvalidCIDR", "", t)
    ELSE IF Len(array.cidrMembers) # 0
    THEN IF \A i \in 1..Len(array.cidrMembers) :
               array.cidrMembers[i] \in ValidNets
         THEN Ok(Leaf("CIDRValues", FALSE, "IPNet", NoOverrides,
                      array.cidrMembers), t)
         ELSE Fail("InvalidCIDR", "", t)
    ELSE Fail("UnknownArrayElement", "", t)

\* case *ast.Primary, the sub-expression excepted
PrimaryToEvaluator(obj, t) ==
    CASE obj.what = "Ident" -> IdentStep(obj.ident, t)
      [] obj.what = "Number" ->
           Ok(Leaf("Int", FALSE, "Scalar", NoOverrides, <<obj.val>>), t)
      [] obj.what = "Variable" -> EvaluatorFromVariable(obj.val, t)
      [] obj.what = "Duration" ->
           Ok([Leaf("Int", FALSE, "Scalar", NoOverrides, <<obj.val>>)
                 EXCEPT !.dur = TRUE], t)
      [] obj.what = "String" ->
           Ok(Leaf("String", FALSE, "Scalar", NoOverrides, <<obj.val>>), t)
      [] obj.what = "Pattern" ->
           Ok(Leaf("String", FALSE, "Pattern", NoOverrides, <<obj.val>>), t)
      [] obj.what = "Regexp" ->
           Ok(Leaf("String", FALSE, "Regexp", NoOverrides, <<obj.val>>), t)
      [] obj.what \in {"IP", "CIDR"} ->
           IF obj.val \in ValidNets
           THEN Ok(Leaf("CIDR", FALSE, "IPNet", NoOverrides, <<obj.val>>), t)
           ELSE Fail("InvalidCIDR", "", t)
      [] OTHER -> Fail("UnknownPrimary", "", t)

\* the result of a comparison inside a compilation
FromCmp(c, t) == IF c.err # "" THEN Fail(c.err, c.ekind, t) ELSE Ok(c.ev, t)

RECURSIVE NodeToEvaluator(_, _)

NodeToEvaluator(obj, t) ==
    CASE obj.type = "BooleanExpression" -> NodeToEvaluator(obj.expr, t)
      [] obj.type = "Expression" ->
           LET cmp == NodeToEvaluator(obj.cmp, t)
           IN IF cmp.err # "" THEN cmp
              ELSE IF obj.op = "" THEN cmp
              ELSE IF cmp.ev.kind # "Bool" THEN Fail("TypeError", "Bool", cmp.t)
              ELSE LET next == NodeToEvaluator(obj.next, cmp.t)
                   IN IF next.err # "" THEN next
                      ELSE IF next.ev.kind # "Bool"
                      THEN Fail("TypeError", "Bool", next.t)
                      ELSE IF obj.op \in {"||", "or"}
                      THEN Ok(BoolOp("or", cmp.ev, next.ev), next.t)
                      ELSE IF obj.op \in {"&&", "and"}
                      THEN Ok(BoolOp("and", cmp.ev, next.ev), next.t)
                      ELSE Fail("OpUnknown", "", next.t)
      [] obj.type = "BitOperation" ->
           LET unary == NodeToEvaluator(obj.unary, t)
           IN IF unary.err # "" THEN unary
              ELSE IF obj.op = "" THEN unary
              ELSE IF unary.ev.kind # "Int"
              THEN Fail("TypeError", "Int", unary.t)
              ELSE LET next == NodeToEvaluator(obj.next, unary.t)
                   IN IF next.err # "" THEN next
                      ELSE IF next.ev.kind # "Int"
                      THEN Fail("TypeError", "Int", next.t)
                      ELSE IF obj.op \in {"&", "|", "^"}
                      THEN Ok(IntOp(obj.op, unary.ev, next.ev), next.t)
                      ELSE Fail("OpUnknown", "", next.t)
      [] obj.type = "Comparison" ->
           LET unary == NodeToEvaluator(obj.bit, t)
           IN IF unary.err # "" THEN unary
              ELSE IF obj.array.type # "nil"
              THEN LET next == NodeToEvaluator(obj.array, unary.t)
                   IN IF next.err # "" THEN next
                      ELSE FromCmp(ArrayCompare(unary.ev, obj.array.op, next.ev),
                                   next.t)
              ELSE IF obj.scalar.type # "nil"
              THEN LET next == NodeToEvaluator(obj.scalar, unary.t)
                   IN IF next.err # "" THEN next
                      ELSE FromCmp(ScalarCompare(unary.ev, obj.scalar.op,
                                                 next.ev),
                                   next.t)
              ELSE unary
      [] obj.type = "ArrayComparison" -> NodeToEvaluator(obj.array, t)
      [] obj.type = "ScalarComparison" -> NodeToEvaluator(obj.next, t)
      [] obj.type = "Unary" ->
           IF obj.op = "" THEN NodeToEvaluator(obj.primary, t)
           ELSE LET unary == NodeToEvaluator(obj.unary, t)
                IN IF unary.err # "" THEN unary
                   ELSE IF obj.op \in {"!", "not"}
                   THEN IF unary.ev.kind # "Bool"
                        THEN Fail("TypeError", "Bool", unary.t)
                        ELSE Ok(NotEval(unary.ev), unary.t)
                   ELSE IF obj.op \in {"-", "^"}
                   THEN IF unary.ev.kind # "Int"
                        THEN Fail("TypeError", "Int", unary.t)
                        ELSE Ok(IntUnary(obj.op, unary.ev), unary.t)
                   ELSE Fail("OpUnknown", "", unary.t)
      [] obj.type = "Primary" ->
           IF obj.what = "SubExpression" THEN NodeToEvaluator(obj.sub, t)
           ELSE PrimaryToEvaluator(obj, t)
      [] obj.type = "Array" -> ArrayToEvaluator(obj, t)
      [] OTHER -> Fail("UnknownEntity", "", t)

\* ------------------------------------------------------------ rule entry

\* RuleToEvaluator handing out whatever nodeToEvaluator returns
RuleToEvaluatorAnyKind(root, t) == NodeToEvaluator(root, t)

\* the compile entry point: the root evaluator must be a *BoolEvaluator
RootMustBeBool(r) ==
    IF r.err # "" THEN r
    ELSE IF r.ev.kind # "Bool" THEN Fail("TypeError", "Bool", r.t)
    ELSE r

RuleToEvaluator(root, t) == RootMustBeBool(NodeToEvaluator(root, t))

\* ----------------------------------------------------------------- inputs

\* length of the array values of the compared operands
MaxArrLen == 2

\* identifiers handed to the resolver
Idents ==
    { <<N("p"), N("a"), Sub("_"), N("f")>>,
      <<N("p"), N("a"), Sub("_"), N("g")>>,
      <<N("p"), N("b"), Sub("_"), N("g")>>,
      <<N("p"), N("a"), Sub("x"), N("f")>>,
      <<N("p"), N("b"), Sub("x"), N("g")>>,
      <<N("p"), N("n"), Sub("x")>>,
      <<N("p"), N("a"), Sub("_"), N("f"), Sub("x")>>,
      <<N("p"), N("a"), N("f")>>,
      <<N("p"), N("n")>>,
      <<N("l"), N("f")>>,
      <<N("p"), N("zz")>>,
      <<N("K")>>,
      <<N("M")>>,
      <<N("KM")>>,
      <<N("p"), N("m")>>,
      <<N("p"), N("a"), Sub(""), N("f")>>,
      <<N("l"), N("a"), Sub("_"), N("f")>> }

\* identifiers written inside "[...]"
ArrayIdents ==
    { <<N("p"), N("a"), Sub("_"), N("f")>>,
      <<N("p"), N("n")>>,
      <<N("p"), N("zz")>>,
      <<N("K")>>,
      <<N("M")>>,
      <<N("KM")>>,
      <<N("p"), N("m")>> }

\* a primary alone, as ast.Comparison / as ast.BitOperation
BitOf(prim) == BitNode(UnaryNode("", NoNode, prim), "", NoNode)

CmpOf(prim) == ComparisonNode(BitOf(prim), NoNode, NoNode)

\* "p1 op p2"
CmpScalar(p1, op, p2) ==
    ComparisonNode(BitOf(p1), ScalarNode(op, CmpOf(p2)), NoNode)

\* "p1 op array"
CmpArray(p1, op, array) ==
    ComparisonNode(BitOf(p1), NoNode, ArrayCmpNode(op, array))

\* a rule of one comparison, and of two joined by op
Rule1(c) == BooleanExpressionNode(ExpressionNode(c, "", NoNode))

Rule2(c1, op, c2) ==
    BooleanExpressionNode(ExpressionNode(c1, op, Rule1(c2)))

IdPaF(sub) == <<N("p"), N("a"), Sub(sub), N("f")>>

IdPaG(sub) == <<N("p"), N("a"), Sub(sub), N("g")>>

IdPbG(sub) == <<N("p"), N("b"), Sub(sub), N("g")>>

\* the rule "p.a[x].f == "abc" && p.b[x].g == 2" for a subscript text x
TwoIteratorsRule(x) ==
    Rule2(CmpScalar(PrimIdent(IdPaF(x)), "==", PrimLit("String", "abc")),
          "&&",
          CmpScalar(PrimIdent(IdPbG(x)), "==", PrimLit("Number", "2")))

\* the rule "p.a[x].f == "abc" && p.a[x].g == 2" for a subscript text x
OneIteratorRule(x) ==
    Rule2(CmpScalar(PrimIdent(IdPaF(x)), "==", PrimLit("String", "abc")),
          "&&",
          CmpScalar(PrimIdent(IdPaG(x)), "==", PrimLit("Number", "2")))

\* rules handed to the compiler
Rules ==
    { TwoIteratorsRule(x) : x \in {"x", "_"} }
    \cup
    { OneIteratorRule(x) : x \in {"x", "_"} }
    \cup
    { Rule1(CmpOf(p)) :
        p \in { PrimLit("Number", "2"), PrimLit("String", "abc"),
                PrimLit("IP", "10.5.1.1"), PrimLit("Duration", "5"),
                PrimIdent(Dot(<<"p", "n">>)), PrimIdent(Dot(<<"p", "ok">>)),
                PrimIdent(IdPaG("_")), PrimIdent(Dot(<<"M">>)),
                PrimIdent(Dot(<<"K">>)), PrimIdent(Dot(<<"p", "l">>)),
                PrimLit("Pattern", "ab*"), PrimLit("CIDR", "10.0.0.0/8"),
                PrimLit("CIDR", "10.0.0.0/33"), PrimLit("Variable", "v"),
                PrimSub(Rule1(CmpOf(PrimLit("Number", "2")))),
                PrimSub(Rule1(CmpOf(PrimIdent(Dot(<<"p", "ok">>))))) } }
    \cup
    { Rule1(ComparisonNode(
                BitNode(UnaryNode(op, UnaryNode("", NoNode, p), NoNode),
                        "", NoNode),
                NoNode, NoNode)) :
        op \in {"!", "-"},
        p \in {PrimLit("Number", "2"), PrimIdent(Dot(<<"p", "ok">>))} }
    \cup
    { Rule1(ComparisonNode(
                BitNode(UnaryNode("", NoNode, PrimIdent(Dot(<<"K">>))), "&",
                        BitOf(PrimLit("Number", "2"))),
                scalar, NoNode)) :
        scalar \in {NoNode, ScalarNode("!=", CmpOf(PrimLit("Number", "1")))} }
    \cup
    { Rule1(CmpScalar(PrimIdent(Dot(<<"p", "n">>)), "=~",
                      PrimLit("String", "ab*"))),
      Rule1(CmpArray(PrimIdent(Dot(<<"p", "n">>)), "in",
                     ArrayNode(<<>>, <<"abc", "xyz">>, <<>>, "", "", <<>>))),
      Rule2(CmpOf(PrimIdent(Dot(<<"p", "ok">>))), "||",
            CmpOf(PrimLit("Number", "2"))) }

\* sequences of length n over S
SeqsOf(S, n) == [1..n -> S]

SeqsUpTo(S, n) == UNION {SeqsOf(S, k) : k \in 0..n}

\* an OpOverrides record with every combinator set to the function name
AllOverrides(name) ==
    [StringEquals |-> name, StringArrayContains |-> name,
     StringValuesContains |-> name, StringArrayMatches |-> name]

\* an OpOverrides record with only StringEquals set
EqualsOverride(name) == [NoOverrides EXCEPT !.StringEquals = name]

StrVals == {"abc", "xyz"}

IntVals == {"1", "2"}

IPVals == {"10.5.1.1", "172.16.0.1"}

NetVals == {"10.0.0.0/8", "172.16.0.1"}

\* the evaluators a comparison may find on either side
StringOperands ==
    {Leaf("String", TRUE, "Scalar", NoOverrides, <<v>>) : v \in StrVals}
    \cup {Leaf("String", TRUE, "Scalar", ov, <<"abc">>) :
            ov \in {AllOverrides("ovA"), AllOverrides("ovB"),
                    EqualsOverride("ovC")}}
    \cup {Leaf("String", TRUE, "Variable", NoOverrides, <<"abc">>)}
    \cup {Leaf("String", FALSE, vt, NoOverrides, <<"ab*">>) :
            vt \in {"Scalar", "Pattern", "Regexp"}}
    \cup {Leaf("String", FALSE, "Scalar", NoOverrides, <<"abc">>),
          Leaf("String", FALSE, "Scalar", AllOverrides("ovB"), <<"abc">>)}

StringArrayOperands ==
    {Leaf("StringArray", TRUE, "Scalar", NoOverrides, v) :
       v \in SeqsUpTo(StrVals, MaxArrLen)}
    \cup {Leaf("StringArray", TRUE, "Scalar", ov, <<"abc", "xyz">>) :
            ov \in {AllOverrides("ovA"), AllOverrides("ovB")}}

StringValuesOperands ==
    {Leaf("StringValues", FALSE, "Scalar", NoOverrides, v) :
       v \in SeqsUpTo(StrVals, MaxArrLen) \ {<<>>}}

IntOperands ==
    {Leaf("Int", fn, "Scalar", NoOverrides, <<v>>) :
       fn \in BOOLEAN, v \in IntVals}
    \cup {[Leaf("Int", FALSE, "Scalar", NoOverrides, <<"1">>)
             EXCEPT !.dur = TRUE]}

IntArrayOperands ==
    {Leaf("IntArray", TRUE, "Scalar", NoOverrides, v) :
       v \in SeqsUpTo(IntVals, MaxArrLen)}

BoolOperands ==
    {Leaf("Bool", TRUE, "Scalar", NoOverrides, <<v>>) : v \in {"true", "false"}}
    \cup {Leaf("BoolArray", TRUE, "Scalar", NoOverrides, <<"true", "false">>)}

CIDROperands ==
    {Leaf("CIDR", TRUE, "IPNet", NoOverrides, <<v>>) : v \in IPVals}
    \cup {Leaf("CIDRArray", TRUE, "IPNet", NoOverrides, v) :
            v \in SeqsUpTo(IPVals, MaxArrLen)}
    \cup {Leaf("CIDRValues", FALSE, "IPNet", NoOverrides, v) :
            v \in SeqsUpTo(NetVals, MaxArrLen) \ {<<>>}}

Operands ==
    StringOperands \cup StringArrayOperands \cup StringValuesOperands
    \cup IntOperands \cup IntArrayOperands \cup BoolOperands \cup CIDROperands

\* the operators the grammar gives ast.ScalarComparison and ast.ArrayComparison
ScalarOps == {"==", "!=", "=~", "!~", "<", "<=", ">", ">="}

ArrayOps == {"in", "notin", "allin"}

\* ------------------------------------------------------------------ actions

NoCmp == [ev |-> NilEval, err |-> "", ekind |-> "", next |-> NilEval]

Init ==
    /\ registersInfo = <<>>
    /\ fields = {}
    /\ OutsideCompilerIdle
    /\ last = [act |-> "init", in |-> <<>>, rnd |-> <<>>, ev |-> NilEval,
               err |-> "", ekind |-> "", reqs |-> <<>>, trips |-> <<>>]

\* one call of identToEvaluator on the State
Resolve(ident, rnd) ==
    LET r == IdentToEvaluator(ident, MkState(registersInfo, fields), rnd)
    IN /\ registersInfo' = r.st.registersInfo
       /\ fields' = r.st.fields
       /\ UNCHANGED outsideCompiler
       /\ last' = [act |-> "ident", in |-> <<ident>>, rnd |-> <<rnd>>,
                   ev |-> r.ev, err |-> r.err, ekind |-> "", reqs |-> r.reqs,
                   trips |-> r.trips]

\* one call of arrayToEvaluator on the State, for the array "[ident]"
ResolveInArray(ident, rnd) ==
    LET r == ArrayToEvaluator(ArrayNode(<<>>, <<>>, ident, "", "", <<>>),
                              Thread(MkState(registersInfo, fields), <<rnd>>))
    IN /\ registersInfo' = r.t.st.registersInfo
       /\ fields' = r.t.st.fields
       /\ UNCHANGED outsideCompiler
       /\ last' = [act |-> "array-ident", in |-> <<ident>>, rnd |-> <<rnd>>,
                   ev |-> r.ev, err |-> r.err, ekind |-> "",
                   reqs |-> r.t.reqs, trips |-> r.t.trips]

Next ==
    \/ \E ident \in Idents, rnd \in RandIDs : Resolve(ident, rnd)
    \/ \E ident \in ArrayIdents, rnd \in RandIDs : ResolveInArray(ident, rnd)

Spec == Init /\ [][Next]_vars

\* ------------------------------------------------- compilations of rules

\* a new State, and the rule to compile on it
InitRule ==
    /\ registersInfo = <<>>
    /\ fields = {}
    /\ OutsideCompilerIdle
    /\ \E rule \in Rules, rnds \in SeqsOf(RandIDs, 2) :
         last = [act |-> "input", in |-> <<rule>>, rnd |-> rnds,
                 ev |-> NilEval, err |-> "", ekind |-> "", reqs |-> <<>>,
                 trips |-> <<>>]

\* the compilation of the rule on the State
Compile ==
    LET r == RuleToEvaluator(last.in[1],
                             Thread(MkState(registersInfo, fields), last.rnd))
    IN /\ last.act = "input"
       /\ registersInfo' = r.t.st.registersInfo
       /\ fields' = r.t.st.fields
       /\ UNCHANGED outsideCompiler
       /\ last' = [last EXCEPT
                     !.act = "rule", !.ev = r.ev, !.err = r.err,
                     !.ekind = r.ekind, !.reqs = r.t.reqs,
                     !.trips = r.t.trips]

NextRule ==
    \/ Compile

SpecRule == InitRule /\ [][NextRule]_vars

\* ------------------------------------- comparisons of compiled operands

\* the operands and the operator of the comparison to compile
InitCmp ==
    /\ registersInfo = <<>>
    /\ fields = {}
    /\ OutsideCompilerIdle
    /\ \E unary \in Operands, next \in Operands,
          op \in ScalarOps \cup ArrayOps :
         last = [act |-> "input", unary |-> unary, op |-> op, next |-> next,
                 out |-> NoCmp]

\* "unary op next" with a scalar operator
CompareScalar ==
    /\ last.act = "input"
    /\ last.op \in ScalarOps
    /\ last' = [last EXCEPT
                  !.act = "scalar",
                  !.out = ScalarCompare(last.unary, last.op, last.next)]
    /\ UNCHANGED <<registersInfo, fields, outsideCompiler>>

\* "unary op next" with an array operator
CompareArray ==
    /\ last.act = "input"
    /\ last.op \in ArrayOps
    /\ last' = [last EXCEPT
                  !.act = "array",
                  !.out = ArrayCompare(last.unary, last.op, last.next)]
    /\ UNCHANGED <<registersInfo, fields, outsideCompiler>>

NextCmp ==
    \/ CompareScalar
    \/ CompareArray

SpecCmp == InitCmp /\ [][NextCmp]_vars

\* -------------------------------------------- stringEvaluatorFromVariable

\* A string literal is a sequence of lexemes: "${", "}" and ordinary
\* characters; indices are Go's, counted from 0, a slice str[a:b] holding
\* the lexemes a+1..b.
Slice(str, a, b) == SubSeq(str, a + 1, b)

\* longest string literal compiled
MaxStrLen == 6

Lexemes == {"${", "}", "v", "x"}

Literals == UNION {[1..n -> Lexemes] : n \in 0..MaxStrLen}

RECURSIVE FindAllFrom(_, _)

\* the matches of variableRegex in str from index pos on, leftmost first
\* and not overlapping, each as <<loc[0], loc[1]>>
FindAllFrom(str, pos) ==
    LET opens == {i \in (pos + 1)..Len(str) :
                    str[i] = "${" /\ \E j \in (i + 1)..Len(str) : str[j] = "}"}
        i == SetMin(opens)
        j == SetMin({k \in (i + 1)..Len(str) : str[k] = "}"})
    IN IF opens = {} THEN <<>>
       ELSE <<<<i - 1, j>>>> \o FindAllFrom(str, j)

\* variableRegex.FindAllIndex([]byte(str), -1)
FindAllIndex(str) == FindAllFrom(str, 0)

\* isVariableName: whether sub is written "${...}", and the name inside
IsVariableName(sub) ==
    Len(sub) >= 2 /\ sub[1] = "${" /\ sub[Len(sub)] = "}"

VariableName(sub) == Slice(sub, 1, Len(sub) - 1)

DigitChars == <<"0", "1", "2", "3", "4", "5", "6", "7", "8", "9">>

RECURSIVE Digits(_)

Digits(n) ==
    IF n < 10 THEN <<DigitChars[n + 1]>>
    ELSE Digits(n \div 10) \o <<DigitChars[(n % 10) + 1]>>

\* strconv.FormatInt(n, 10)
FormatInt(n) == IF n < 0 THEN <<"-">> \o Digits(0 - n) ELSE Digits(n)

RECURSIVE Join(_, _)

\* strings.Join(elems, sep)
Join(elems, sep) ==
    IF Len(elems) = 0 THEN <<>>
    ELSE IF Len(elems) = 1 THEN elems[1]
    ELSE elems[1] \o sep \o Join(Tail(elems), sep)

\* the loop of the IntArrayEvaluator case: the numbers rendered and joined
JoinInts(numbers) ==
    Join([i \in 1..Len(numbers) |-> FormatInt(numbers[i])], <<",">>)

\* the values a variable of the store may hold when the rule is evaluated
VariableValues ==
    {[kind |-> "String", val |-> <<"p">>],
     [kind |-> "Int", val |-> 12],
     [kind |-> "Int", val |-> 0 - 3],
     [kind |-> "StringArray", val |-> <<<<"p">>, <<"q", "r">>>>],
     [kind |-> "StringArray", val |-> <<>>],
     [kind |-> "IntArray", val |-> <<1, 20>>],
     [kind |-> "Bool", val |-> TRUE]}

\* Opts.Variables of a string compilation: "v" as drawn, "x" an integer
VariableStore(v) ==
    (<<"v">> :> v) @@ (<<"x">> :> [kind |-> "Int", val |-> 0])

\* the StringEvaluator doLoc appends for a variable, by what its EvalFnc
\* returns, and one for a stretch of the literal
VariablePart(value) ==
    CASE value.kind = "StringArray" -> Join(value.val, <<",">>)
      [] value.kind = "IntArray" -> JoinInts(value.val)
      [] value.kind = "String" -> value.val
      [] value.kind = "Int" -> FormatInt(value.val)

\* doLoc: the evaluators after sub, or the error
DoLoc(sub, store, acc) ==
    IF acc.err # "" THEN acc
    ELSE IF IsVariableName(sub)
    THEN IF VariableName(sub) \notin DOMAIN store
         THEN [acc EXCEPT !.err = "VariableNotFound"]
         ELSE IF store[VariableName(sub)].kind
                   \notin {"StringArray", "IntArray", "String", "Int"}
         THEN [acc EXCEPT !.err = "VariableTypeNotSupported"]
         ELSE [acc EXCEPT
                 !.evaluators = @ \o <<VariablePart(store[VariableName(sub)])>>]
    ELSE [acc EXCEPT !.evaluators = @ \o <<sub>>]

\* StretchBefore slicing from the start of the literal
StretchBeforeFromStart(str, lastIdx, loc, store, acc) ==
    IF loc[1] > 0 THEN DoLoc(Slice(str, 0, loc[1]), store, acc) ELSE acc

\* the "if loc[0] > 0" step of the loop: the stretch before a match
StretchBefore(str, lastIdx, loc, store, acc) ==
    IF loc[1] > 0 THEN DoLoc(Slice(str, lastIdx, loc[1]), store, acc) ELSE acc

RECURSIVE LocLoop(_, _, _, _, _)

\* the loop over the matches, then the stretch after the last one
LocLoop(str, locs, lastIdx, store, acc) ==
    IF acc.err # "" THEN acc
    ELSE IF Len(locs) = 0
    THEN IF lastIdx < Len(str)
         THEN DoLoc(Slice(str, lastIdx, Len(str)), store, acc)
         ELSE acc
    ELSE LocLoop(str, Tail(locs), Head(locs)[2], store,
                 DoLoc(Slice(str, Head(locs)[1], Head(locs)[2]), store,
                       StretchBefore(str, lastIdx, Head(locs), store, acc)))

\* stringEvaluatorFromVariable: the parts of the evaluator, or the error
StringEvaluatorFromVariable(str, store) ==
    LocLoop(str, FindAllIndex(str), 0, store, [err |-> "", evaluators |-> <<>>])

\* the EvalFnc of the evaluator returned: the parts in order
InterpolatedString(evaluators) == Join(evaluators, <<>>)

\* case obj.String of a primary: interpolated only if it holds a variable
StringPrimary(str, store) ==
    IF Len(FindAllIndex(str)) > 0
    THEN LET r == StringEvaluatorFromVariable(str, store)
         IN [err |-> r.err, fn |-> TRUE, vt |-> "Variable",
             val |-> IF r.err = "" THEN InterpolatedString(r.evaluators)
                     ELSE <<>>]
    ELSE [err |-> "", fn |-> FALSE, vt |-> "Scalar", val |-> str]

\* a string literal and the value of variable "v" at evaluation
InitStr ==
    /\ registersInfo = <<>>
    /\ fields = {}
    /\ OutsideCompilerIdle
    /\ \E str \in Literals, v \in VariableValues :
         last = [act |-> "input", str |-> str, v |-> v,
                 out |-> [err |-> "", fn |-> FALSE, vt |-> "", val |-> <<>>]]

\* the literal compiled as a primary and its evaluator evaluated
CompileString ==
    /\ last.act = "input"
    /\ last' = [last EXCEPT
                  !.act = "string",
                  !.out = StringPrimary(last.str, VariableStore(last.v))]
    /\ UNCHANGED <<registersInfo, fields, outsideCompiler>>

NextStr ==
    \/ CompileString

SpecStr == InitStr /\ [][NextStr]_vars

\* ------------------------------------------------ EVP proxy transports
\*
\* A path, a query string, a host and an API key are sequences of
\* characters; a body is what its reader gives: the bytes, and whether
\* reading them ends in an error.

\* longest request path
MaxPathLen == 4

\* largest number of configured endpoints
MaxEndpoints == 3

validSubdomainSymbols == {"_", "-", "."}

validPathSymbols == {"/", "_", "-", "+"}

validPathQueryStringSymbols ==
    {"/", "_", "-", "+", "@", "?", "&", "=", ".", ":", "\""}

\* the letters and digits that occur in the requests
Alnum == {"a"}

isValidSubdomain(s) ==
    \A i \in 1..Len(s) : s[i] \in Alnum \cup validSubdomainSymbols

isValidPath(s) ==
    \A i \in 1..Len(s) : s[i] \in Alnum \cup validPathSymbols

isValidQueryString(s) ==
    \A i \in 1..Len(s) : s[i] \in Alnum \cup validPathQueryStringSymbols

\* strings.Index for a one-character separator, 0 when absent
IndexOf(s, sep) ==
    IF \E i \in 1..Len(s) : s[i] = sep
    THEN CHOOSE i \in 1..Len(s) :
           s[i] = sep /\ \A j \in 1..(i - 1) : s[j] # sep
    ELSE 0

RECURSIVE SplitN(_, _, _)
\* strings.SplitN(s, sep, n) for n > 0
SplitN(s, sep, n) ==
    IF n = 1 \/ IndexOf(s, sep) = 0
    THEN <<s>>
    ELSE <<SubSeq(s, 1, IndexOf(s, sep) - 1)>>
           \o SplitN(SubSeq(s, IndexOf(s, sep) + 1, Len(s)), sep, n - 1)

\* strings.TrimPrefix
TrimPrefix(s, prefix) ==
    IF Len(prefix) <= Len(s) /\ SubSeq(s, 1, Len(prefix)) = prefix
    THEN SubSeq(s, Len(prefix) + 1, Len(s))
    ELSE s

\* config.Endpoint number i of the transport: its own host and API key
Endpoint(i) ==
    [Host |-> [j \in 1..i |-> "h"], APIKey |-> [j \in 1..i |-> "k"]]

\* t.endpoints, n endpoints configured, the main endpoint first
Endpoints(n) == [i \in 1..n |-> Endpoint(i)]

\* a request without body
NilBody == [nil |-> TRUE, data |-> <<>>, fails |-> FALSE, limit |-> 0]

Body(data, fails) ==
    [nil |-> FALSE, data |-> data, fails |-> fails, limit |-> 0]

Bodies ==
    {NilBody, Body(<<>>, FALSE), Body(<<"x", "y">>, FALSE),
     Body(<<"x">>, TRUE)}

\* apiutil.NewLimitedReader: reading fails once limit bytes were read
NewLimitedReader(body, limit) == [body EXCEPT !.limit = limit]

\* ioutil.ReadAll on a body that is not nil
ReadAll(body) ==
    IF body.fails \/ (body.limit > 0 /\ Len(body.data) >= body.limit)
    THEN [data |-> <<>>, err |-> [msg |-> "read", from |-> 0]]
    ELSE [data |-> body.data, err |-> [msg |-> "", from |-> 0]]

PathChars == {"/", "a", "!"}

Paths == UNION {[1..n -> PathChars] : n \in 0..MaxPathLen}

QueryStrings == {<<>>, <<"=">>, <<"!">>}

\* the requests handed to RoundTrip; url = FALSE is a request without URL
Requests ==
    [url : {TRUE}, path : Paths, query : QueryStrings, body : Bodies]
      \cup {[url |-> FALSE, path |-> <<>>, query |-> <<>>,
             body |-> NilBody]}

\* an evpProxyTransport or evpIntakeProxyTransport with n endpoints
Transports ==
    {[kind |-> k, n |-> n, maxPayloadSize |-> m] :
       k \in {"evpProxy"}, n \in 1..MaxEndpoints, m \in {0, 2}}
      \cup {[kind |-> k, n |-> n, maxPayloadSize |-> 0] :
              k \in {"evpIntakeProxy"}, n \in 1..MaxEndpoints}

NoError == [msg |-> "", from |-> 0]

NilResponse == [from |-> 0]

\* t.transport.RoundTrip for the request sent to endpoint i: its response
\* or its error, as the network decides (outcomes)
TransportRoundTrip(outcomes, i) ==
    IF outcomes[i] = "ok"
    THEN [resp |-> [from |-> i], err |-> NoError]
    ELSE [resp |-> NilResponse, err |-> [msg |-> "transport", from |-> i]]

Returned(resp, err, sent) ==
    [status |-> "returned", resp |-> resp, err |-> err, sent |-> sent]

RoundTripError(msg) == Returned(NilResponse, [msg |-> msg, from |-> 0], <<>>)

\* a nil dereference: the call does not return
Panic == [status |-> "panic", resp |-> NilResponse, err |-> NoError,
          sent |-> <<>>]

\* setTarget on a request or on a copy of it: the request as it is sent
SetTarget(r, endpoint) ==
    [Host |-> r.subdomain \o r.sep \o endpoint.Host,
     apiKey |-> endpoint.APIKey,
     path |-> r.path, query |-> r.query, body |-> r.body]

\* len(t.endpoints) == 1: the request itself goes to the only endpoint
SingleEndpoint(r, t, outcomes) ==
    Returned(TransportRoundTrip(outcomes, 1).resp,
             TransportRoundTrip(outcomes, 1).err,
             <<SetTarget(r, Endpoint(1))>>)

\* the result kept from the request to endpoint i
KeepMainResult(acc, i, out) ==
    IF i = 1 THEN [acc EXCEPT !.resp = out.resp, !.err = out.err] ELSE acc

RECURSIVE EndpointLoop(_, _, _, _, _)
\* "for i, endpointDomain := range t.endpoints", from endpoint i on
EndpointLoop(i, r, t, outcomes, acc) ==
    IF i > t.n
    THEN acc
    ELSE EndpointLoop(i + 1, r, t, outcomes,
           [KeepMainResult(acc, i, TransportRoundTrip(outcomes, i))
              EXCEPT !.sent = Append(@, SetTarget(r, Endpoint(i)))])

\* more than one endpoint: a copy for each around the bytes read (slurp)
MultiEndpoints(r, slurp, t, outcomes) ==
    IF slurp.err # NoError
    THEN Returned(NilResponse, slurp.err, <<>>)
    ELSE EndpointLoop(1,
           [r EXCEPT !.body = IF r.body.nil THEN NilBody
                               ELSE Body(slurp.data, FALSE)],
           t, outcomes, Returned(NilResponse, NoError, <<>>))

\* the request once its path is taken apart
Checked(sep, subdomain, path, query, body) ==
    [sep |-> sep, subdomain |-> subdomain, path |-> path, query |-> query,
     body |-> body]

\* evpProxyTransport.RoundTrip after the nil checks and the limited reader
EvpProxyChecked(t, req, body, parts, outcomes) ==
    IF Len(parts) # 3 \/ parts[1] # <<>> \/ parts[2] = <<>>
         \/ parts[3] = <<>>
    THEN RoundTripError("invalid path")
    ELSE IF ~isValidSubdomain(parts[2])
    THEN RoundTripError("invalid subdomain")
    ELSE IF ~isValidPath(TrimPrefix(req.path, <<"/">> \o parts[2]))
    THEN RoundTripError("invalid target path")
    ELSE IF ~isValidQueryString(req.query)
    THEN RoundTripError("invalid query string")
    ELSE IF t.n = 1
    THEN SingleEndpoint(
           Checked(<<".", "e", "v", "p", ".">>, parts[2],
                   TrimPrefix(req.path, <<"/">> \o parts[2]), req.query,
                   body), t, outcomes)
    ELSE MultiEndpoints(
           Checked(<<".", "e", "v", "p", ".">>, parts[2],
                   TrimPrefix(req.path, <<"/">> \o parts[2]), req.query,
                   body),
           IF body.nil THEN [data |-> <<>>, err |-> NoError]
           ELSE ReadAll(body), t, outcomes)

\* evpProxyTransport.RoundTrip
EvpProxyRoundTrip(t, req, outcomes) ==
    IF ~req.url
    THEN RoundTripError("invalid request")
    ELSE EvpProxyChecked(t, req,
           IF ~req.body.nil /\ t.maxPayloadSize > 0
           THEN NewLimitedReader(req.body, t.maxPayloadSize)
           ELSE req.body,
           SplitN(req.path, "/", 3), outcomes)

\* evpIntakeProxyTransport.RoundTrip once the request has a URL; the body
\* is read without a look at whether there is one
EvpIntakeChecked(t, req, parts, outcomes) ==
    IF Len(parts) # 2 \/ parts[1] = <<>> \/ parts[2] = <<>>
    THEN RoundTripError("invalid path")
    ELSE IF ~isValidSubdomain(parts[1])
    THEN RoundTripError("invalid subdomain")
    ELSE IF ~isValidPath(parts[2])
    THEN RoundTripError("invalid target path")
    ELSE IF ~isValidQueryString(req.query)
    THEN RoundTripError("invalid query string")
    ELSE IF t.n = 1
    THEN SingleEndpoint(
           Checked(<<".">>, parts[1], <<"/">> \o parts[2], req.query,
                   req.body), t, outcomes)
    ELSE IF req.body.nil
    THEN Panic
    ELSE MultiEndpoints(
           Checked(<<".">>, parts[1], <<"/">> \o parts[2], req.query,
                   req.body), ReadAll(req.body), t, outcomes)

\* evpIntakeProxyTransport.RoundTrip; req.URL.Path of a request without
\* URL is a nil dereference
EvpIntakeProxyRoundTrip(t, req, outcomes) ==
    IF ~req.url
    THEN Panic
    ELSE EvpIntakeChecked(t, req, SplitN(req.path, "/", 2), outcomes)

\* a transport, a request, and what the network does with each endpoint
InitEvp ==
    /\ OutsideEvpIdle
    /\ \E t \in Transports, req \in Requests :
         \E outcomes \in [1..t.n -> {"ok", "err"}] :
           evpCall = [t |-> t, req |-> req, outcomes |-> outcomes]
    /\ evpResult = [status |-> "none"]

\* one request through an evpProxyTransport
RoundTripEvpProxy ==
    /\ evpCall.t.kind = "evpProxy"
    /\ evpResult.status = "none"
    /\ evpResult' = EvpProxyRoundTrip(evpCall.t, evpCall.req,
                                      evpCall.outcomes)
    /\ UNCHANGED <<evpCall, outsideEvp>>

\* one request through an evpIntakeProxyTransport
RoundTripEvpIntakeProxy ==
    /\ evpCall.t.kind = "evpIntakeProxy"
    /\ evpResult.status = "none"
    /\ evpResult' = EvpIntakeProxyRoundTrip(evpCall.t, evpCall.req,
                                            evpCall.outcomes)
    /\ UNCHANGED <<evpCall, outsideEvp>>

NextEvp ==
    \/ RoundTripEvpProxy
    \/ RoundTripEvpIntakeProxy

SpecEvp == InitEvp /\ [][NextEvp]_vars

\* --------------------------------------------------------- network state
\*
\* networkState of pkg/network: the closed connections buffered for each
\* client and the counters remembered for each client and connection.
\* Connections carry no IP translation, so that ByteKey gives the same key
\* with and without NAT, and GetDelta is called without DNS and HTTP
\* statistics.  The DNS and HTTP statistics have a section of their own
\* below, where GetDelta is called without connections.

ClientIDs == {"c1", "c2"}

ConnKeys == {"k1", "k2"}

\* ns.maxClosedConns and ns.maxClientStats of the state under test
maxClosedConns == 1

maxClientStats == 1

\* ns.maxDNSStats and ns.maxHTTPStats of the state under test
maxDNSStats == 1

maxHTTPStats == 1

\* the unsigned counters wrap around at this value
CounterModulus == 16

\* largest value of a counter of a buffered closed connection
MaxCounter == 4

\* largest sum of the telemetry counters
MaxTelemetry == 1

CounterNames ==
    {"SentBytes", "RecvBytes", "SentPackets", "RecvPackets", "Retransmits",
     "TCPEstablished", "TCPClosed"}

\* StatCounters
ZeroCounters == [f \in CounterNames |-> 0]

\* "+=" on every counter
AddCounters(a, b) == [f \in CounterNames |-> (a[f] + b[f]) % CounterModulus]

\* ConnectionStats
Connection(key, monotonic, epoch) ==
    [key |-> key, Monotonic |-> monotonic, Last |-> ZeroCounters,
     LastUpdateEpoch |-> epoch]

\* the counters that connections arrive with: more bytes go with fewer
\* packets in the second than in the first
CounterSamples ==
    <<[ZeroCounters EXCEPT !.SentBytes = 1, !.SentPackets = 2,
                           !.TCPEstablished = 1],
      [ZeroCounters EXCEPT !.SentBytes = 2, !.SentPackets = 1,
                           !.TCPClosed = 1]>>

\* closed connections of two keys with the same counters, and the batches
\* of them given to StoreClosedConnections
ClosedConns == {Connection(k, CounterSamples[1], 2) : k \in ConnKeys}

ClosedBatches ==
    {<<c>> : c \in ClosedConns}
      \cup {<<c, d>> : c \in ClosedConns, d \in ClosedConns}

\* the active connections given to GetDelta along with them
ActiveBatches ==
    {<<>>} \cup {<<Connection(k, CounterSamples[1], 2)>> : k \in ConnKeys}

\* connections of one key with either counters, closed and active, older
\* and newer
ClosedSamples ==
    {<<Connection("k1", CounterSamples[i], 2)>> : i \in 1..2}

ActiveSamples ==
    {<<>>} \cup {<<Connection("k1", CounterSamples[i], e)>> :
                   i \in 1..2, e \in 1..3}

\* ConnectionStats.ByteKey; it fails only on a buffer that is too short
ByteKey(c) == c.key

NoTelemetry ==
    [closedConnDropped |-> 0, connDropped |-> 0, statsResets |-> 0,
     timeSyncCollisions |-> 0, dnsStatsDropped |-> 0, httpStatsDropped |-> 0]

\* a Go map without entries
EmptyMap == [x \in {} |-> 0]

\* getClient: the client made for an id that is not registered
NewClient ==
    [closedConnectionsKeys |-> EmptyMap, closedConnections |-> <<>>,
     stats |-> EmptyMap, dnsStats |-> EmptyMap, httpStatsDelta |-> EmptyMap]

\* getClient
getClient(cls, id) ==
    IF id \in DOMAIN cls THEN cls
    ELSE [i \in DOMAIN cls \cup {id} |->
            IF i = id THEN NewClient ELSE cls[i]]

\* m[k] = v on a Go map
MapSet(m, k, v) ==
    [x \in DOMAIN m \cup {k} |-> IF x = k THEN v ELSE m[x]]

\* addConnections(a, b): a afterwards
addConnections(a, b) ==
    [a EXCEPT !.Monotonic = AddCounters(@, b.Monotonic),
              !.LastUpdateEpoch =
                 IF b.LastUpdateEpoch > @ THEN b.LastUpdateEpoch ELSE @]

\* the body of the inner loop of storeClosedConnections for connection c;
\* s is the client and the number of connections dropped so far
StoreClosedConnection(s, c) ==
    IF ByteKey(c) \in DOMAIN s.client.closedConnectionsKeys
    THEN [s EXCEPT !.client.closedConnections[
                       s.client.closedConnectionsKeys[ByteKey(c)] + 1] =
                     addConnections(@, c)]
    ELSE IF Len(s.client.closedConnections) >= maxClosedConns
    THEN [s EXCEPT !.dropped = @ + 1]
    ELSE [s EXCEPT !.client.closedConnections = Append(@, c),
                   !.client.closedConnectionsKeys =
                      MapSet(@, ByteKey(c),
                             Len(s.client.closedConnections))]

RECURSIVE StoreForClient(_, _)
\* "for _, c := range conns" for one client
StoreForClient(s, conns) ==
    IF conns = <<>> THEN s
    ELSE StoreForClient(StoreClosedConnection(s, Head(conns)), Tail(conns))

RECURSIVE SumDropped(_, _, _)
\* the connections dropped over the clients in ids
SumDropped(cls, conns, ids) ==
    IF ids = {} THEN 0
    ELSE LET id == CHOOSE i \in ids : TRUE
         IN StoreForClient([client |-> cls[id], dropped |-> 0],
                           conns).dropped
              + SumDropped(cls, conns, ids \ {id})

\* storeClosedConnections: the clients and the telemetry afterwards
storeClosedConnections(cls, tel, conns) ==
    [clients |->
       [id \in DOMAIN cls |->
          StoreForClient([client |-> cls[id], dropped |-> 0], conns).client],
     telemetry |->
       [tel EXCEPT !.closedConnDropped =
                     @ + SumDropped(cls, conns, DOMAIN cls)]]

RECURSIVE getConnsByKey(_)
\* getConnsByKey: a later connection replaces an earlier one of its key
getConnsByKey(conns) ==
    IF conns = <<>> THEN EmptyMap
    ELSE MapSet(getConnsByKey(SubSeq(conns, 1, Len(conns) - 1)),
                ByteKey(conns[Len(conns)]), conns[Len(conns)])

\* c.Monotonic - st on every counter, in unsigned arithmetic
LastCounters(monotonic, st) ==
    [f \in CounterNames |->
       (monotonic[f] - st[f] + CounterModulus) % CounterModulus]

\* handleStatsUnderflow: m holds the client's stats and the telemetry
handleStatsUnderflow(m, key, c) ==
    IF \/ c.Monotonic.SentBytes < m.stats[key].SentBytes
       \/ c.Monotonic.RecvBytes < m.stats[key].RecvBytes
       \/ c.Monotonic.Retransmits < m.stats[key].Retransmits
    THEN [m EXCEPT !.telemetry.statsResets = @ + 1,
                   !.stats[key].SentBytes = 0,
                   !.stats[key].RecvBytes = 0,
                   !.stats[key].Retransmits = 0]
    ELSE m

\* the Last counters of c against the stats left by handleStatsUnderflow,
\* which then become newStats
SetLast(m, key, c, newStats) ==
    [m EXCEPT !.conn = [c EXCEPT !.Last =
                                   LastCounters(c.Monotonic, m.stats[key])],
              !.stats[key] = newStats]

\* updateConnWithStats: m.conn is the connection afterwards
updateConnWithStats(m, key, c) ==
    IF key \in DOMAIN m.stats
    THEN SetLast(handleStatsUnderflow(m, key, c), key, c, c.Monotonic)
    ELSE [m EXCEPT !.conn = [c EXCEPT !.Last = c.Monotonic]]

\* updateConnWithStatWithActiveConn
updateConnWithStatWithActiveConn(m, key, active, closed) ==
    IF key \in DOMAIN m.stats
    THEN SetLast(handleStatsUnderflow(m, key, closed), key, closed,
                 active.Monotonic)
    ELSE [m EXCEPT !.conn = [closed EXCEPT !.Last = closed.Monotonic]]

\* createStatsForKey
createStatsForKey(m, key) ==
    IF key \notin DOMAIN m.stats
    THEN IF Cardinality(DOMAIN m.stats) >= maxClientStats
         THEN [m EXCEPT !.telemetry.connDropped = @ + 1]
         ELSE [m EXCEPT !.stats = MapSet(@, key, ZeroCounters)]
    ELSE m

\* the closed connection at index i and its key are done
ClosedDone(m, i, key) ==
    [m EXCEPT !.closed[i] = m.conn, !.closedKeys = @ \cup {key}]

\* the body of the loop of mergeConnections over the closed connections
MergeClosed(m, active, i, closedConn, key) ==
    IF key \in DOMAIN active
    THEN IF closedConn.LastUpdateEpoch > active[key].LastUpdateEpoch
         THEN ClosedDone(updateConnWithStats(m, key, closedConn), i, key)
         ELSE IF closedConn.LastUpdateEpoch < active[key].LastUpdateEpoch
         THEN ClosedDone(
                updateConnWithStatWithActiveConn(
                  createStatsForKey(m, key), key, active[key],
                  addConnections(closedConn, active[key])), i, key)
         ELSE ClosedDone(
                updateConnWithStats(
                  [m EXCEPT !.telemetry.timeSyncCollisions = @ + 1],
                  key, closedConn), i, key)
    ELSE ClosedDone(updateConnWithStats(m, key, closedConn), i, key)

RECURSIVE MergeClosedFrom(_, _, _)
\* "for i := range closed", from index i on
MergeClosedFrom(m, active, i) ==
    IF i > Len(m.closed) THEN m
    ELSE MergeClosedFrom(
           MergeClosed(m, active, i, m.closed[i], ByteKey(m.closed[i])),
           active, i + 1)

\* *buffer.Next() = *c
BufferNext(m) == [m EXCEPT !.buffer = Append(@, m.conn)]

\* the body of the loop of mergeConnections over the active connections
MergeActive(m, active, key) ==
    IF key \in m.closedKeys THEN m
    ELSE BufferNext(updateConnWithStats(createStatsForKey(m, key), key,
                                        active[key]))

RECURSIVE MergeActiveFrom(_, _, _)
\* "for key, c := range active", the keys in the order the map gives them
MergeActiveFrom(m, active, order) ==
    IF order = <<>> THEN m
    ELSE MergeActiveFrom(MergeActive(m, active, Head(order)), active,
                         Tail(order))

\* mergeConnections: the stats, the telemetry and the connections for the
\* client buffer (the closed ones, then the active ones)
mergeConnections(client, tel, active, order) ==
    MergeActiveFrom(
      MergeClosedFrom(
        [stats |-> client.stats, telemetry |-> tel,
         conn |-> Connection("", ZeroCounters, 0),
         closed |-> client.closedConnections, closedKeys |-> {},
         buffer |-> <<>>], active, 1),
      active, order)

\* Reset without the truncation of closedConnections
ResetKeepingClosed(client, active) ==
    [client EXCEPT !.stats = [k \in DOMAIN @ \cap DOMAIN active |-> @[k]]]

\* client.Reset(active)
Reset(client, active) ==
    [closedConnectionsKeys |-> EmptyMap, closedConnections |-> <<>>,
     stats |-> [k \in DOMAIN client.stats \cap DOMAIN active |->
                  client.stats[k]],
     dnsStats |-> EmptyMap, httpStatsDelta |-> EmptyMap]

\* the orders in which a Go map with these keys can be walked
KeyOrders(keys) ==
    {o \in [1..Cardinality(keys) -> keys] :
       \A i, j \in DOMAIN o : o[i] = o[j] => i = j}

\* the sum of the telemetry counters stays within the bound
TelemetryBounded(tel) ==
    tel.closedConnDropped + tel.connDropped + tel.statsResets
      + tel.timeSyncCollisions + tel.dnsStatsDropped + tel.httpStatsDropped
      <= MaxTelemetry

\* every counter of every buffered closed connection within the bound
CountersBounded(cls) ==
    \A id \in DOMAIN cls :
      \A i \in 1..Len(cls[id].closedConnections) :
        \A f \in CounterNames :
          cls[id].closedConnections[i].Monotonic[f] <= MaxCounter

\* NewState
InitNet ==
    /\ OutsideNetIdle
    /\ clients = EmptyMap
    /\ telemetry = NoTelemetry
    /\ requestStats = EmptyMap
    /\ netLast = [op |-> "NewState", id |-> "", closed |-> <<>>,
                  active |-> <<>>, conns |-> <<>>]

RegisterClient(id) ==
    /\ clients' = getClient(clients, id)
    /\ netLast' = [op |-> "RegisterClient", id |-> id, closed |-> <<>>,
                   active |-> <<>>, conns |-> <<>>]
    /\ UNCHANGED <<telemetry, requestStats, outsideNet>>

RemoveClient(id) ==
    /\ clients' = [i \in DOMAIN clients \ {id} |-> clients[i]]
    /\ netLast' = [op |-> "RemoveClient", id |-> id, closed |-> <<>>,
                   active |-> <<>>, conns |-> <<>>]
    /\ UNCHANGED <<telemetry, requestStats, outsideNet>>

RemoveConnections(keys) ==
    /\ clients' = [i \in DOMAIN clients |->
                     [clients[i] EXCEPT
                        !.stats = [k \in DOMAIN @ \ keys |-> @[k]]]]
    /\ telemetry' = NoTelemetry
    /\ netLast' = [op |-> "RemoveConnections", id |-> "", closed |-> <<>>,
                   active |-> <<>>, conns |-> <<>>]
    /\ UNCHANGED <<requestStats, outsideNet>>

\* the state after StoreClosedConnections(closed)
StoreResult(r, closed) ==
    /\ CountersBounded(r.clients)
    /\ TelemetryBounded(r.telemetry)
    /\ clients' = r.clients
    /\ telemetry' = r.telemetry
    /\ netLast' = [op |-> "StoreClosedConnections", id |-> "",
                   closed |-> closed, active |-> <<>>,
                   conns |-> <<>>]
    /\ UNCHANGED <<requestStats, outsideNet>>

StoreClosedConnections(closed) ==
    StoreResult(storeClosedConnections(clients, telemetry, closed), closed)

\* the state after GetDelta, m being what mergeConnections left
DeltaResult(cls, m, id, active, connsByKey) ==
    /\ TelemetryBounded(m.telemetry)
    /\ clients' = [cls EXCEPT
                     ![id] = Reset([@ EXCEPT !.stats = m.stats], connsByKey)]
    /\ telemetry' = m.telemetry
    /\ netLast' = [op |-> "GetDelta", id |-> id, closed |-> <<>>,
                   active |-> active, conns |-> m.closed \o m.buffer]
    /\ UNCHANGED <<requestStats, outsideNet>>

\* GetDelta(id, latestTime, active, nil, nil)
GetDelta(id, active, order) ==
    DeltaResult(getClient(clients, id),
                mergeConnections(getClient(clients, id)[id], telemetry,
                                 getConnsByKey(active), order),
                id, active, getConnsByKey(active))

NextNet ==
    \/ \E id \in ClientIDs : RegisterClient(id)
    \/ \E id \in ClientIDs : RemoveClient(id)
    \/ \E keys \in SUBSET ConnKeys : RemoveConnections(keys)
    \/ \E closed \in ClosedBatches : StoreClosedConnections(closed)
    \/ \E id \in ClientIDs, active \in ActiveBatches :
         \E order \in KeyOrders(DOMAIN getConnsByKey(active)) :
           GetDelta(id, active, order)

SpecNet == InitNet /\ [][NextNet]_vars

\* one client and the connections of one key
NextCounters ==
    \/ RemoveConnections({"k1"})
    \/ \E closed \in ClosedSamples : StoreClosedConnections(closed)
    \/ \E active \in ActiveSamples :
         \E order \in KeyOrders(DOMAIN getConnsByKey(active)) :
           GetDelta("c1", active, order)

SpecCounters == InitNet /\ [][NextCounters]_vars

\* ------------------------------------------- DNS and HTTP statistics
\*
\* GetDelta called with DNS and HTTP statistics and no connection.  An
\* entry of dns.StatsByKeyByNameByType is named by its (key, domain, query
\* type) and holds one counter (Timeouts); the maps of one level are not
\* told apart, every level being created and counted with the entry.  An
\* http.RequestStats is an object of requestStats that holds one counter;
\* a map of HTTP statistics holds the names of such objects.

DNSEntries == {"d1", "d2"}

HTTPKeys == <<"h1", "h2">>

\* largest counter of a DNS entry or of a RequestStats object
MaxStat == 2

\* the statistics a caller passes: nothing, or 1 for some entries
DNSBatches == {[e \in S |-> 1] : S \in SUBSET DNSEntries}

HTTPBatches ==
    {[k \in S |-> 1] : S \in SUBSET {HTTPKeys[i] : i \in 1..Len(HTTPKeys)}}

\* the body of the loops of storeDNSStats for one client and one entry; s
\* holds the client's dnsStats and the number of entries dropped
StoreDNSEntry(s, stats, e) ==
    IF e \in DOMAIN s.dnsStats
    THEN [s EXCEPT !.dnsStats[e] = @ + stats[e]]
    ELSE IF Cardinality(DOMAIN s.dnsStats) >= maxDNSStats
    THEN [s EXCEPT !.dropped = @ + 1]
    ELSE [s EXCEPT !.dnsStats = MapSet(@, e, stats[e])]

RECURSIVE StoreDNSForClient(_, _, _)
\* "for key, statsByDomain := range stats" for one client, the entries
\* walked in this order
StoreDNSForClient(s, stats, order) ==
    IF order = <<>> THEN s
    ELSE StoreDNSForClient(StoreDNSEntry(s, stats, Head(order)), stats,
                           Tail(order))

RECURSIVE DNSDropped(_, _, _, _)
\* the entries dropped over the clients in ids
DNSDropped(cls, stats, orders, ids) ==
    IF ids = {} THEN 0
    ELSE LET id == CHOOSE i \in ids : TRUE
         IN StoreDNSForClient([dnsStats |-> cls[id].dnsStats, dropped |-> 0],
                              stats, orders[id]).dropped
              + DNSDropped(cls, stats, orders, ids \ {id})

\* storeDNSStats: the clients and the telemetry afterwards
storeDNSStats(cls, tel, stats, orders) ==
    IF Cardinality(DOMAIN cls) = 1
    THEN [clients |->
            [id \in DOMAIN cls |->
               IF DOMAIN cls[id].dnsStats = {}
               THEN [cls[id] EXCEPT !.dnsStats = stats]
               ELSE cls[id]],
          telemetry |-> tel]
    ELSE [clients |->
            [id \in DOMAIN cls |->
               [cls[id] EXCEPT
                  !.dnsStats =
                     StoreDNSForClient([dnsStats |-> @, dropped |-> 0],
                                       stats, orders[id]).dnsStats]],
          telemetry |->
            [tel EXCEPT !.dnsStatsDropped =
                          @ + DNSDropped(cls, stats, orders, DOMAIN cls)]]

\* the least name no object has
NewObject(heap) ==
    CHOOSE n \in 1..(Cardinality(DOMAIN heap) + 1) :
      n \notin DOMAIN heap /\ \A m \in 1..(n - 1) : m \in DOMAIN heap

RECURSIVE Allocate(_, _, _)
\* the caller's map of HTTP statistics: a new object for each of its keys
Allocate(a, httpStats, i) ==
    IF i > Len(HTTPKeys) THEN a
    ELSE IF HTTPKeys[i] \notin DOMAIN httpStats
    THEN Allocate(a, httpStats, i + 1)
    ELSE Allocate([heap |-> MapSet(a.heap, NewObject(a.heap),
                                   httpStats[HTTPKeys[i]]),
                   objects |-> MapSet(a.objects, HTTPKeys[i],
                                      NewObject(a.heap))],
                  httpStats, i + 1)

\* StoreHTTPStat without the check of maxHTTPStats
StoreHTTPStatUnlimited(s, id, key, stats) ==
    IF key \in DOMAIN s.clients[id].httpStatsDelta
    THEN [s EXCEPT !.heap[s.clients[id].httpStatsDelta[key]] =
                      @ + s.heap[stats]]
    ELSE [s EXCEPT !.clients[id].httpStatsDelta = MapSet(@, key, stats)]

\* the body of the loops of storeHTTPStats for one key and one client; s
\* holds the clients, the objects and the number of keys dropped
StoreHTTPStat(s, id, key, stats) ==
    IF key \notin DOMAIN s.clients[id].httpStatsDelta
       /\ Cardinality(DOMAIN s.clients[id].httpStatsDelta) >= maxHTTPStats
    THEN [s EXCEPT !.dropped = @ + 1]
    ELSE IF key \in DOMAIN s.clients[id].httpStatsDelta
    THEN [s EXCEPT !.heap[s.clients[id].httpStatsDelta[key]] =
                      @ + s.heap[stats]]
    ELSE [s EXCEPT !.clients[id].httpStatsDelta = MapSet(@, key, stats)]

RECURSIVE StoreHTTPForKey(_, _, _, _)
\* "for _, client := range ns.clients" for one key
StoreHTTPForKey(s, ids, key, stats) ==
    IF ids = {} THEN s
    ELSE LET id == CHOOSE i \in ids : TRUE
         IN StoreHTTPForKey(StoreHTTPStat(s, id, key, stats), ids \ {id},
                            key, stats)

RECURSIVE StoreHTTPFrom(_, _, _)
\* "for key, stats := range allStats", the keys walked in this order
StoreHTTPFrom(s, allStats, order) ==
    IF order = <<>> THEN s
    ELSE StoreHTTPFrom(StoreHTTPForKey(s, DOMAIN s.clients, Head(order),
                                       allStats[Head(order)]),
                       allStats, Tail(order))

\* storeHTTPStats: the clients, the objects and the telemetry afterwards
storeHTTPStats(cls, heap, tel, allStats, order) ==
    IF Cardinality(DOMAIN cls) = 1
       /\ \A id \in DOMAIN cls : DOMAIN cls[id].httpStatsDelta = {}
    THEN [clients |-> [id \in DOMAIN cls |->
                         [cls[id] EXCEPT !.httpStatsDelta = allStats]],
          heap |-> heap, telemetry |-> tel]
    ELSE LET s == StoreHTTPFrom([clients |-> cls, heap |-> heap,
                                 dropped |-> 0], allStats, order)
         IN [clients |-> s.clients, heap |-> s.heap,
             telemetry |-> [tel EXCEPT !.httpStatsDropped = @ + s.dropped]]

\* the objects a map of HTTP statistics points to
Objects(m) == {m[k] : k \in DOMAIN m}

\* the HTTP map of a Delta with what its objects hold
Valued(m, heap) == [HTTP |-> m, values |-> [k \in DOMAIN m |-> heap[m[k]]]]

\* the Delta returned by the call before this one, if it was a GetDelta
Earlier ==
    IF netLast.op = "GetDelta" THEN netLast.delta.HTTP ELSE EmptyMap

\* every counter of DNS and HTTP statistics within the bound
StatsBounded(cls, heap) ==
    /\ \A id \in DOMAIN cls :
         \A e \in DOMAIN cls[id].dnsStats : cls[id].dnsStats[e] <= MaxStat
    /\ \A o \in DOMAIN heap : heap[o] <= MaxStat

\* the state after GetDelta, h being what storeHTTPStats left and live the
\* objects still pointed to: by a client, by the Delta returned and by the
\* Delta returned before it
StatsReturned(id, dnsStats, httpStats, h, conns, connsByKey, live) ==
    /\ TelemetryBounded(h.telemetry)
    /\ StatsBounded(h.clients, h.heap)
    /\ clients' = [h.clients EXCEPT ![id] = Reset(@, connsByKey)]
    /\ telemetry' = h.telemetry
    /\ requestStats' = [o \in live |-> h.heap[o]]
    /\ netLast' = [op |-> "GetDelta", id |-> id, closed |-> <<>>,
                   active |-> conns.active, conns |-> conns.returned,
                   dnsStats |-> dnsStats, httpStats |-> httpStats,
                   delta |-> [DNSStats |-> h.clients[id].dnsStats,
                              HTTP |-> h.clients[id].httpStatsDelta,
                              values |-> Valued(h.clients[id].httpStatsDelta,
                                                h.heap).values],
                   earlier |-> Valued(Earlier, requestStats)]
    /\ UNCHANGED outsideNet

\* the objects pointed to once the client id has been reset
Live(id, h) ==
    UNION {Objects(h.clients[c].httpStatsDelta) : c \in DOMAIN h.clients}
      \cup Objects(Earlier)

\* GetDelta from storeHTTPStats on, d being what storeDNSStats left and a
\* the caller's HTTP statistics
StatsStored(id, dnsStats, httpStats, d, a, order, conns, connsByKey) ==
    IF DOMAIN httpStats = {}
    THEN StatsReturned(id, dnsStats, httpStats,
                       [clients |-> d.clients, heap |-> requestStats,
                        telemetry |-> d.telemetry],
                       conns, connsByKey,
                       Live(id, [clients |-> d.clients]))
    ELSE StatsReturned(id, dnsStats, httpStats,
                       storeHTTPStats(d.clients, a.heap, d.telemetry,
                                      a.objects, order),
                       conns, connsByKey,
                       Live(id, storeHTTPStats(d.clients, a.heap, d.telemetry,
                                               a.objects, order)))

\* GetDelta from storeDNSStats on, m being what mergeConnections left
StatsMerged(id, active, dnsStats, httpStats, cls, m, orders, order) ==
    StatsStored(id, dnsStats, httpStats,
                IF DOMAIN dnsStats = {}
                THEN [clients |-> [cls EXCEPT ![id].stats = m.stats],
                      telemetry |-> m.telemetry]
                ELSE storeDNSStats([cls EXCEPT ![id].stats = m.stats],
                                   m.telemetry, dnsStats, orders),
                Allocate([heap |-> requestStats, objects |-> EmptyMap],
                         httpStats, 1),
                order,
                [active |-> active, returned |-> m.closed \o m.buffer],
                getConnsByKey(active))

\* GetDelta(id, latestTime, active, dnsStats, httpStats); connOrder, orders
\* and order are the orders in which the maps of the active connections and
\* of the statistics are walked
GetDeltaStats(id, active, connOrder, dnsStats, httpStats, orders, order) ==
    StatsMerged(id, active, dnsStats, httpStats, getClient(clients, id),
                mergeConnections(getClient(clients, id)[id], telemetry,
                                 getConnsByKey(active), connOrder),
                orders, order)

\* RemoveExpiredClients(now): expired are the clients whose lastFetch is
\* more than clientExpiry before now; the times are read from the clock
\* and are not part of the state
RemoveExpiredClients(expired) ==
    /\ clients' = [i \in DOMAIN clients \ expired |-> clients[i]]
    /\ netLast' = [op |-> "RemoveExpiredClients", id |-> "",
                   closed |-> <<>>, active |-> <<>>, conns |-> <<>>]
    /\ UNCHANGED <<telemetry, requestStats, outsideNet>>

\* the calls of the DNS statistics
NextDNS ==
    \/ \E id \in ClientIDs : RegisterClient(id)
    \/ \E id \in ClientIDs : RemoveClient(id)
    \/ \E expired \in SUBSET DOMAIN clients : RemoveExpiredClients(expired)
    \/ RemoveConnections({})
    \/ \E id \in ClientIDs, dnsStats \in DNSBatches :
         \E orders \in [DOMAIN getClient(clients, id)
                          -> KeyOrders(DOMAIN dnsStats)] :
           GetDeltaStats(id, <<>>, <<>>, dnsStats, EmptyMap, orders, <<>>)

SpecDNS == InitNet /\ [][NextDNS]_vars

\* the calls of the HTTP statistics
NextHTTP ==
    \/ \E id \in ClientIDs : RegisterClient(id)
    \/ \E id \in ClientIDs : RemoveClient(id)
    \/ \E expired \in SUBSET DOMAIN clients : RemoveExpiredClients(expired)
    \/ RemoveConnections({})
    \/ \E id \in ClientIDs, httpStats \in HTTPBatches :
         \E order \in KeyOrders(DOMAIN httpStats) :
           GetDeltaStats(id, <<>>, <<>>, EmptyMap, httpStats,
                         [c \in DOMAIN getClient(clients, id) |-> <<>>],
                         order)

SpecHTTP == InitNet /\ [][NextHTTP]_vars

\* connections and statistics together: a batch of closed connections
\* that exceeds maxClosedConns
LimitClosed ==
    {<<Connection("k1", CounterSamples[1], 2),
       Connection("k2", CounterSamples[1], 2)>>}

\* what a call of GetDelta passes: c1 an active connection, c2 one entry of
\* the DNS statistics or one key of the HTTP statistics
LimitCalls ==
    {[id |-> "c1", active |-> a, dnsStats |-> EmptyMap,
      httpStats |-> EmptyMap] : a \in ActiveBatches \ {<<>>}}
      \cup {[id |-> "c2", active |-> <<>>, dnsStats |-> d,
              httpStats |-> EmptyMap] :
               d \in {b \in DNSBatches : Cardinality(DOMAIN b) = 1}}
      \cup {[id |-> "c2", active |-> <<>>, dnsStats |-> EmptyMap,
              httpStats |-> h] :
               h \in {b \in HTTPBatches : Cardinality(DOMAIN b) = 1}}

\* the calls of connections and statistics together
NextLimits ==
    \/ RemoveClient("c1")
    \/ RemoveConnections({})
    \/ \E closed \in LimitClosed : StoreClosedConnections(closed)
    \/ \E call \in LimitCalls :
         \E connOrder \in KeyOrders(DOMAIN getConnsByKey(call.active)),
            orders \in [DOMAIN getClient(clients, call.id)
                          -> KeyOrders(DOMAIN call.dnsStats)],
            order \in KeyOrders(DOMAIN call.httpStats) :
           GetDeltaStats(call.id, call.active, connOrder, call.dnsStats,
                         call.httpStats, orders, order)

SpecLimits == InitNet /\ [][NextLimits]_vars

\* ------------------------------------------------ partial uptane client
\*
\* PartialClient of package uptane.  What go-tuf verifies (the chain of
\* roots, the signatures of the targets) is an outcome carried by the
\* response, together with the versions of the roots and of the targets.

\* the versions a root or the targets can have
MaxVersion == 2

\* meta.RootsDirector().LastVersion(): the version of the embedded root
LastVersion == 1

TargetPaths == {"p", "q"}

RawContents == {"a", "b"}

\* sha256.Sum256 and sha512.Sum512: different bytes, different checksums
Checksum(algorithm, raw) == <<algorithm, raw>>

\* data.TargetFileMeta.Hashes of the signed targets: no hash, the sha256 of
\* either content, two hashes of which the second is of other bytes
HashSamples ==
    {EmptyMap,
     [sha256 |-> Checksum("sha256", "a")],
     [sha256 |-> Checksum("sha256", "b")],
     [sha256 |-> Checksum("sha256", "a"),
      sha512 |-> Checksum("sha512", "b")]}

\* data.TargetFiles: target path -> meta
TargetMetas == UNION {[S -> HashSamples] : S \in SUBSET TargetPaths}

\* pbgo.File
File(path, raw) == [Path |-> path, Raw |-> raw]

Files == {File("p", "a"), File("p", "b"), File("q", "a")}

\* response.TargetFiles
FileLists ==
    {<<>>} \cup {<<f>> : f \in Files}
      \cup {<<f, g>> : f \in Files, g \in Files}

\* response.Targets.Raw: empty, not signed by the targets role, or signed
\* targets with their metas
TargetsRaws ==
    {[raw |-> "empty", metas |-> EmptyMap, version |-> 0],
     [raw |-> "invalid", metas |-> EmptyMap, version |-> 0]}
      \cup {[raw |-> "signed", metas |-> m, version |-> LastVersion] :
               m \in TargetMetas}

\* pbgo.ClientGetConfigsResponse; roots says whether UpdateRoots accepts
\* response.Roots, newRoots how many roots newer than the stored one it
\* then stores
Responses ==
    {[roots |-> "invalid", newRoots |-> 0,
      targets |-> [raw |-> "empty", metas |-> EmptyMap, version |-> 0],
      targetFiles |-> <<>>]}
      \cup [roots : {"valid"}, newRoots : {0}, targets : TargetsRaws,
            targetFiles : FileLists]

\* the orders in which a range over c.targetMetas can visit the paths
PathOrders == KeyOrders(TargetPaths)

\* HashAlgorithms(): the names of the hashes of a meta
HashAlgorithms(meta) == DOMAIN meta

\* validateAndUpdateTargets: the error, c.targetMetas and c.targetsVersion
\* afterwards
validateAndUpdateTargets(metas, version, targets) ==
    IF targets.raw = "empty"
    THEN [err |-> "", targetMetas |-> metas, targetsVersion |-> version]
    ELSE IF targets.raw = "invalid"
    THEN [err |-> "verify", targetMetas |-> metas,
          targetsVersion |-> version]
    ELSE [err |-> "", targetMetas |-> targets.metas,
          targetsVersion |-> targets.version]

\* "for _, target := range c.targetFiles": the last file of that path, 0
\* if there is none
FindTargetFile(files, path) ==
    IF \E i \in 1..Len(files) : files[i].Path = path
    THEN CHOOSE i \in 1..Len(files) :
           /\ files[i].Path = path
           /\ \A j \in (i + 1)..Len(files) : files[j].Path # path
    ELSE 0

\* the path visited last by a range over metas that follows order
LastVisited(metas, order) ==
    order[CHOOSE i \in 1..Len(order) :
            /\ order[i] \in DOMAIN metas
            /\ \A j \in (i + 1)..Len(order) : order[j] \notin DOMAIN metas]

\* "for targetPath, target := range c.targetMetas { targetMeta = &target }":
\* the pointer is to the variable of the loop, which holds the meta visited
\* last once the loop is over
FindTargetMeta(metas, path, order) ==
    IF path \in DOMAIN metas
    THEN [found |-> TRUE, of |-> LastVisited(metas, order),
          meta |-> metas[LastVisited(metas, order)]]
    ELSE [found |-> FALSE, of |-> path, meta |-> EmptyMap]

\* the loop over the hash algorithms of the meta: every checksum is of a
\* supported algorithm and equal to the checksum of raw
ChecksumsMatch(meta, raw) ==
    \A algorithm \in HashAlgorithms(meta) :
      /\ algorithm \in {"sha256", "sha512"}
      /\ Checksum(algorithm, raw) = meta[algorithm]

\* targetFile once the file (index i) and the meta (tm) are looked up
TargetFileChecked(files, i, tm) ==
    IF i = 0 THEN [err |-> "target file not found", data |-> "", of |-> ""]
    ELSE IF ~tm.found
    THEN [err |-> "target file meta not found", data |-> "", of |-> ""]
    ELSE IF HashAlgorithms(tm.meta) = {}
    THEN [err |-> "target file has no hash", data |-> "", of |-> tm.of]
    ELSE IF ~ChecksumsMatch(tm.meta, files[i].Raw)
    THEN [err |-> "checksum", data |-> "", of |-> tm.of]
    ELSE [err |-> "", data |-> files[i].Raw, of |-> tm.of]

\* PartialClient.targetFile
targetFile(files, metas, path, order) ==
    TargetFileChecked(files, FindTargetFile(files, path),
                      FindTargetMeta(metas, path, order))

RECURSIVE VerifyTargetFiles(_, _, _, _)
\* "for _, target := range response.TargetFiles", from file i on: the
\* error of the first targetFile that fails
VerifyTargetFiles(files, metas, orders, i) ==
    IF i > Len(files) THEN ""
    ELSE IF targetFile(files, metas, files[i].Path, orders[i]).err # ""
    THEN targetFile(files, metas, files[i].Path, orders[i]).err
    ELSE VerifyTargetFiles(files, metas, orders, i + 1)

\* NewPartialClient
InitPartial ==
    /\ OutsidePartialIdle
    /\ valid = FALSE
    /\ rootVersion = LastVersion
    /\ targetsVersion = 0
    /\ targetMetas = EmptyMap
    /\ targetFiles = <<>>
    /\ partialLast = [op |-> "NewPartialClient", path |-> "", err |-> "",
                      data |-> "", of |-> "", update |-> "none"]

\* Update fails before the target files are replaced, root being
\* c.rootVersion and v what validateAndUpdateTargets leaves
UpdateFailsEarly(err, root, v) ==
    /\ valid' = FALSE
    /\ rootVersion' = root
    /\ targetsVersion' = v.targetsVersion
    /\ targetMetas' = v.targetMetas
    /\ UNCHANGED targetFiles
    /\ partialLast' = [op |-> "Update", path |-> "", err |-> err,
                       data |-> "", of |-> "", update |-> "error"]

\* Update from "c.targetFiles = response.TargetFiles" on
UpdateTargetFiles(response, root, v, err) ==
    /\ valid' = (err = "")
    /\ rootVersion' = root
    /\ targetsVersion' = v.targetsVersion
    /\ targetMetas' = v.targetMetas
    /\ targetFiles' = response.targetFiles
    /\ partialLast' = [op |-> "Update", path |-> "", err |-> err,
                       data |-> "", of |-> "",
                       update |-> IF err = "" THEN "ok" ELSE "error"]

\* Update after UpdateRoots and updateRootVersion, root being the version
\* of the root now stored and v what validateAndUpdateTargets returns
UpdateTargets(response, root, v, orders) ==
    IF v.err # ""
    THEN UpdateFailsEarly(v.err, root, v)
    ELSE UpdateTargetFiles(response, root, v,
                           VerifyTargetFiles(response.targetFiles,
                                             v.targetMetas, orders, 1))

\* PartialClient.Update
Update(response, orders) ==
    /\ rootVersion + response.newRoots <= MaxVersion
    /\ IF response.roots = "invalid"
       THEN UpdateFailsEarly("roots", rootVersion,
                             [targetMetas |-> targetMetas,
                              targetsVersion |-> targetsVersion])
       ELSE UpdateTargets(response, rootVersion + response.newRoots,
                          validateAndUpdateTargets(targetMetas,
                                                   targetsVersion,
                                                   response.targets),
                          orders)
    /\ UNCHANGED outsidePartial

\* PartialClient.State
State ==
    /\ partialLast' = [op |-> "State", path |-> "", err |-> "",
                       data |-> "", of |-> "",
                       update |-> partialLast.update,
                       RootVersion |-> rootVersion,
                       TargetsVersion |-> targetsVersion]
    /\ UNCHANGED <<valid, rootVersion, targetsVersion, targetMetas,
                   targetFiles, outsidePartial>>

\* PartialClient.Targets
Targets ==
    /\ partialLast' =
         [op |-> "Targets", path |-> "",
          err |-> IF valid THEN "" ELSE "not in a valid state",
          data |-> IF valid THEN "targetMetas" ELSE "", of |-> "",
          update |-> partialLast.update]
    /\ UNCHANGED <<valid, rootVersion, targetsVersion, targetMetas,
                   targetFiles, outsidePartial>>

\* what TargetFile returns
TargetFileResult(path, r) ==
    /\ partialLast' = [op |-> "TargetFile", path |-> path, err |-> r.err,
                       data |-> r.data, of |-> r.of,
                       update |-> partialLast.update]
    /\ UNCHANGED <<valid, rootVersion, targetsVersion, targetMetas,
                   targetFiles, outsidePartial>>

\* PartialClient.TargetFile
TargetFile(path, order) ==
    TargetFileResult(path,
      IF ~valid
      THEN [err |-> "not in a valid state", data |-> "", of |-> ""]
      ELSE targetFile(targetFiles, targetMetas, path, order))

NextPartial ==
    \/ \E response \in Responses :
         \E orders \in [1..Len(response.targetFiles) -> PathOrders] :
           Update(response, orders)
    \/ Targets
    \/ \E path \in TargetPaths, order \in PathOrders :
         TargetFile(path, order)

SpecPartial == InitPartial /\ [][NextPartial]_vars

\* the responses whose roots and targets carry a version: one target path,
\* its meta with or without the hash of the bytes "a"
VersionedTargets ==
    {[raw |-> "empty", metas |-> EmptyMap, version |-> 0],
     [raw |-> "invalid", metas |-> EmptyMap, version |-> 0]}
      \cup [raw : {"signed"},
            metas : {[path \in {"p"} |-> h] :
                       h \in {EmptyMap,
                              [sha256 |-> Checksum("sha256", "a")]}},
            version : 1..MaxVersion]

VersionedResponses ==
    [roots : {"invalid", "valid"}, newRoots : {0, 1},
     targets : VersionedTargets,
     targetFiles : {<<>>, <<File("p", "a")>>, <<File("p", "b")>>}]

NextVersions ==
    \/ \E response \in VersionedResponses :
         \E orders \in [1..Len(response.targetFiles) -> PathOrders] :
           Update(response, orders)
    \/ State
    \/ Targets
    \/ \E path \in TargetPaths, order \in PathOrders :
         TargetFile(path, order)

SpecVersions == InitPartial /\ [][NextVersions]_vars

\* ----------------------------------- comparisons with a named evaluator

\* identToEvaluator on a name of Opts.Constants or state.macros: the
\* evaluator the table points to, the constants looked up first
Named(st, name) ==
    IF name \in DOMAIN st.constants THEN st.constants[name]
    ELSE st.macros[name]

\* the tables after the evaluator that the name points to has become ev
Pointee(st, name, ev) ==
    IF name \in DOMAIN st.constants
    THEN [st EXCEPT !.constants[name] = ev]
    ELSE [st EXCEPT !.macros[name] = ev]

\* the names written on the right of a comparison
StoreNames == {Dot(<<"KS">>), Dot(<<"MS">>), Dot(<<"K">>), Dot(<<"M">>)}

\* the fields written on its left, compiled
StoreOperands ==
    {Leaf("String", TRUE, "Scalar", NoOverrides, <<"abc">>),
     Leaf("StringArray", TRUE, "Scalar", NoOverrides, <<"abc", "xyz">>),
     Leaf("Int", TRUE, "Scalar", NoOverrides, <<"1">>)}

StoreOps == {"==", "!=", "=~", "!~", "<"}

InitStore ==
    /\ tables = [constants |-> Constants, macros |-> Macros]
    /\ tablesLast = [op |-> "init"]
    /\ OutsideStoreIdle

\* nodeToEvaluator on "unary op name": the right-hand side is the evaluator
\* the table holds, and what the comparison does to it is done to the
\* table's evaluator
CompareNamed(unary, op, name) ==
    LET next == Named(tables, name)
        out == ScalarCompare(unary, op, next)
    IN /\ tables' = Pointee(tables, name, out.next)
       /\ tablesLast' = [op |-> op, name |-> name, unary |-> unary,
                        next |-> next, ev |-> out.ev, err |-> out.err]
       /\ UNCHANGED outsideStore

NextStore ==
    \E unary \in StoreOperands, op \in StoreOps, name \in StoreNames :
      CompareNamed(unary, op, name)

SpecStore == InitStore /\ [][NextStore]_vars

\* ----------------------------------------------------------------- claims

\* the combinator under a negation
Core(ev) == IF ev.node = "not" THEN ev.arg ELSE ev

WrapperNames ==
    {"StringEquals", "StringArrayContains", "StringValuesContains",
     "StringArrayMatches"}

\* the comparison went through one of the override wrappers
ViaWrapper ==
    /\ last.act \in {"scalar", "array"}
    /\ last.out.err = ""
    /\ Core(last.out.ev).node = "comb"
    /\ Core(last.out.ev).name \in WrapperNames

\* the override the claim expects: the left operand's of the source
\* expression, else the right operand's, else none
ExpectedOverride(left, right, name) ==
    IF left.ov[name] # "" THEN left.ov[name]
    ELSE IF right.ov[name] # "" THEN right.ov[name]
    ELSE ""

\* C1: in every comparison routed through an override wrapper, the swapped
\* forms included, the override invoked is the left operand's if the left
\* operand of the source expression carries one for the combinator, else
\* the right operand's if it carries one, else the default combinator.
C1_LeftOverrideWins ==
    ViaWrapper =>
        Core(last.out.ev).by =
            ExpectedOverride(last.unary, last.next, Core(last.out.ev).name)

\* C2: "L =~ R" and "L !~ R" with L a String or StringArray evaluator fail
\* with the non-static-pattern error and no evaluator whenever R is a
\* StringEvaluator with an EvalFnc, and never with that error when R is a
\* literal; no other comparison returns that error.
C2_NonStaticPattern ==
    last.act \in {"scalar", "array"} =>
        /\ (/\ last.act = "scalar"
            /\ last.op \in {"=~", "!~"}
            /\ last.unary.kind \in {"String", "StringArray"}
            /\ last.next.kind = "String"
            /\ last.next.fn)
           => (last.out.err = "NonStaticPattern" /\ last.out.ev = NilEval)
        /\ last.out.err = "NonStaticPattern"
           => (/\ last.act = "scalar"
               /\ last.op \in {"=~", "!~"}
               /\ last.next.kind = "String"
               /\ last.next.fn)

C2_Witness ==
    /\ last.act = "scalar"
    /\ last.op = "!~"
    /\ last.unary.kind = "StringArray"
    /\ last.next.vt = "Variable"
    /\ last.out.err = "NonStaticPattern"

\* C4: for every pair of operands the array comparison accepts, "notin"
\* compiles to the negation of exactly the evaluator "in" compiles to, and
\* is rejected exactly when "in" is; its value is the opposite of "in"'s.
C4_NotinNegatesIn ==
    (last.act = "array" /\ last.op = "notin") =>
        LET in == ArrayCompare(last.unary, "in", last.next)
        IN /\ last.out.err = in.err
           /\ last.out.err = ""
              => /\ last.out.ev = NotEval(in.ev)
                 /\ Eval(last.out.ev) = ~Eval(in.ev)

C4_Witness ==
    /\ last.act = "array"
    /\ last.op = "notin"
    /\ last.unary.kind = "CIDRArray"
    /\ last.out.err = ""
    /\ Eval(last.out.ev)

\* every element of the left array is a member of the right operand
AllMembers(left, right) ==
    \A x \in Elems(left.val) :
        IF left.kind = "CIDRArray" THEN \E n \in Elems(right.val) : InNet(n, x)
        ELSE x \in Elems(right.val)

\* C5: for every left-hand array kind the compiler accepts "allin" with
\* (string, integer and CIDR arrays), "A allin S" is true iff every element
\* of A is a member of S.
C5_AllinIsUniversal ==
    (/\ last.act = "array"
     /\ last.op = "allin"
     /\ last.unary.kind \in {"StringArray", "IntArray", "CIDRArray"}
     /\ last.out.err = "")
    => (Eval(last.out.ev) <=> AllMembers(last.unary, last.next))

\* the string evaluator on the right as the combinator received it
PatternOperand ==
    IF last.unary.kind = "String" THEN Core(last.out.ev).b
    ELSE Core(last.out.ev).a

\* C6: "=~" and "!~" with a literal right-hand StringEvaluator turn a
\* Scalar value type into Pattern before the combinator is built and leave
\* Pattern and Regexp alone; "==" and "!=" never change the value type, so
\* that name == "ab*" is literal equality and name =~ "ab*" matches "abc".
C6_PatternPromotion ==
    (/\ last.act = "scalar"
     /\ last.unary.kind \in {"String", "StringArray"}
     /\ last.next.kind = "String"
     /\ last.out.err = "")
    => /\ last.op \in {"=~", "!~"}
          => /\ last.out.next.vt =
                  (IF last.next.vt = "Scalar" THEN "Pattern" ELSE last.next.vt)
             /\ PatternOperand = last.out.next
       /\ last.op \in {"==", "!="}
          => /\ last.out.next = last.next
             /\ PatternOperand = last.next
       /\ (/\ last.unary.kind = "String"
           /\ last.unary.val = <<"abc">>
           /\ last.next.vt = "Scalar"
           /\ last.next.val = <<"ab*">>)
          => /\ last.op = "==" => ~Eval(last.out.ev)
             /\ last.op = "=~" => Eval(last.out.ev)

C6_Witness ==
    /\ last.act = "scalar"
    /\ last.op = "=~"
    /\ last.unary.kind = "String"
    /\ last.unary.val = <<"abc">>
    /\ last.next.vt = "Scalar"
    /\ last.next.val = <<"ab*">>
    /\ last.out.next.vt = "Pattern"
    /\ Eval(last.out.ev)

\* what nodeToEvaluator alone makes of the rule just compiled
RootResult ==
    NodeToEvaluator(last.in[1], Thread(MkState(<<>>, {}), last.rnd))

\* C3: a successful compilation of a root expression yields a BoolEvaluator;
\* a root that is not boolean-typed fails with a type error expecting bool
\* and no evaluator is returned.
C3_RootIsBool ==
    last.act = "rule" =>
        /\ last.err = "" => last.ev.kind = "Bool"
        /\ (RootResult.err = "" /\ RootResult.ev.kind # "Bool")
           => (last.err = "TypeError" /\ last.ekind = "Bool"
               /\ last.ev = NilEval)
        /\ (RootResult.err = "" /\ RootResult.ev.kind = "Bool")
           => (last.err = "" /\ last.ev = RootResult.ev)

C3_Witness ==
    /\ last.act = "rule"
    /\ last.in[1] = Rule1(CmpOf(PrimIdent(IdPaG("_"))))
    /\ last.err = "TypeError"
    /\ last.ekind = "Bool"
    /\ fields = {Dot(<<"p", "a", "g">>)}

\* the resolver triple of the identifier just resolved
LastTrip == last.trips[1]

\* C7: every entry of registersInfo keeps the iterator field it was created
\* with; a resolution that reaches an existing register id with another
\* iterator field returns the multiple-fields error and leaves the entry
\* as it is, one with the same iterator field only adds its resolved field.
C7_RegisterKeepsIteratorField ==
    [][ /\ \A id \in DOMAIN registersInfo :
              /\ id \in DOMAIN registersInfo'
              /\ registersInfo'[id].field = registersInfo[id].field
              /\ registersInfo[id].subFields \subseteq
                     registersInfo'[id].subFields
        /\ (last'.trips # <<>> /\ last'.trips[1].regID \in DOMAIN registersInfo)
           => LET tr == last'.trips[1]
              IN IF registersInfo[tr.regID].field # tr.itField
                 THEN /\ last'.err = "RegisterMultipleFields"
                      /\ registersInfo' = registersInfo
                 ELSE registersInfo' =
                         [registersInfo EXCEPT
                            ![tr.regID].subFields = @ \cup {tr.field}]
      ]_vars

C7_Witness ==
    /\ last.act = "ident"
    /\ last.err = "RegisterMultipleFields"
    /\ LastTrip.regID \in DOMAIN registersInfo
    /\ registersInfo[LastTrip.regID].field # LastTrip.itField
    /\ \E id \in DOMAIN registersInfo :
         Cardinality(registersInfo[id].subFields) = 2

\* C8 as stated: the rule with the register id x written on two different
\* iterator fields fails with the multiple-fields error.
C8_MultipleFieldsError ==
    (last.act = "rule" /\ last.in[1] = TwoIteratorsRule("x"))
    => last.err = "RegisterMultipleFields"

\* C8 amended: that rule fails with the register-name-not-allowed error at
\* its first identifier, before any register is created or compared; the
\* multiple-fields error is returned for two different iterator fields
\* exactly when the ids generated for two "_" subscripts coincide.
C8_RegisterNameNotAllowed ==
    last.act = "rule" =>
        /\ last.in[1] = TwoIteratorsRule("x")
           => /\ last.err = "RegisterNameNotAllowed"
              /\ last.ev = NilEval
              /\ Len(last.trips) = 1
              /\ last.reqs = <<>>
              /\ registersInfo = <<>>
        /\ last.in[1] = TwoIteratorsRule("_")
           => (last.err = "RegisterMultipleFields"
               <=> last.rnd[1] = last.rnd[2])

C8_Witness ==
    /\ last.act = "rule"
    /\ last.in[1] = TwoIteratorsRule("x")
    /\ last.err = "RegisterNameNotAllowed"

\* C9 as stated: after both identifiers of the rule on one iterator field
\* are resolved, registersInfo holds a single entry for the iterator field
\* with both resolved fields, and both accessors were requested with that
\* one register id.
C9_OneSharedRegister ==
    (/\ last.act = "rule"
     /\ last.in[1] \in {OneIteratorRule("x"), OneIteratorRule("_")}
     /\ last.err = "")
    => /\ Cardinality(DOMAIN registersInfo) = 1
       /\ \A id \in DOMAIN registersInfo :
            /\ registersInfo[id].field = Dot(<<"p", "a">>)
            /\ registersInfo[id].subFields =
                   {Dot(<<"p", "a", "f">>), Dot(<<"p", "a", "g">>)}
            /\ last.reqs = << <<Dot(<<"p", "a", "f">>), id>>,
                              <<Dot(<<"p", "a", "g">>), id>> >>

\* C9 amended: each of the two identifiers written with "_" is bound to the
\* register id generated for it: registersInfo has an entry under that id
\* for the iterator field, holding the identifier's resolved field, and the
\* accessor is requested with that id; the two share one entry, holding
\* both fields, exactly when the generated ids coincide.  Written with
\* another id x, the rule is rejected.
C9_RegisterPerIdentifier ==
    last.act = "rule" =>
        /\ (last.in[1] = OneIteratorRule("_"))
           => /\ last.err = ""
              /\ DOMAIN registersInfo = {last.rnd[1], last.rnd[2]}
              /\ last.reqs = << <<Dot(<<"p", "a", "f">>), last.rnd[1]>>,
                                <<Dot(<<"p", "a", "g">>), last.rnd[2]>> >>
              /\ \A i \in 1..2 :
                   /\ registersInfo[last.rnd[i]].field = Dot(<<"p", "a">>)
                   /\ last.reqs[i][1] \in registersInfo[last.rnd[i]].subFields
              /\ (Cardinality(DOMAIN registersInfo) = 1
                  <=> last.rnd[1] = last.rnd[2])
        /\ (last.in[1] = OneIteratorRule("x"))
           => last.err = "RegisterNameNotAllowed"

C9_Witness ==
    /\ last.act = "rule"
    /\ last.in[1] = OneIteratorRule("_")
    /\ last.err = ""
    /\ Cardinality(DOMAIN registersInfo) = 2

\* the identifier holds a subscript with a text other than "_"
HasWrittenRegister(ident) ==
    \E i \in 1..Len(ident) : ident[i].t = "s" /\ ident[i].s \notin {"", "_"}

\* C10: resolving an identifier whose subscript holds a text other than "_"
\* returns an error and no evaluator, requests no accessor from the Model
\* and adds nothing to registersInfo or to fields.
C10_WrittenRegisterRejected ==
    [][ (last'.act = "ident" /\ HasWrittenRegister(last'.in[1]))
        => /\ last'.err # ""
           /\ last'.ev = NilEval
           /\ last'.reqs = <<>>
           /\ registersInfo' = registersInfo
           /\ fields' = fields
      ]_vars

C10_Witness ==
    /\ last.act = "ident"
    /\ last.in[1] = IdPaF("x")
    /\ last.err = "RegisterNameNotAllowed"
    /\ registersInfo # <<>>
    /\ fields # {}

\* ------------------------------------------------------------ C11

\* the rows of the dispatch table of the specification, as
\* <<left kind, operator, right kind>>
DispatchTable ==
    ({"Bool"} \X {"==", "!="} \X {"Bool"})
    \cup ({"Int"} \X {"<", "<=", ">", ">=", "==", "!="} \X {"Int", "IntArray"})
    \cup ({"IntArray"} \X {"<", "<=", ">", ">=", "==", "!="} \X {"Int"})
    \cup ({"String", "StringArray"} \X {"==", "!=", "=~", "!~"} \X {"String"})
    \cup ({"String"} \X {"in", "notin"} \X {"StringArray", "StringValues"})
    \cup ({"StringArray"} \X {"in", "notin", "allin"} \X {"StringValues"})
    \cup ({"CIDR"} \X {"==", "!="} \X {"CIDR"})
    \cup ({"CIDR"} \X {"in", "notin", "allin"} \X {"CIDRValues"})
    \cup ({"CIDR"} \X {"in", "notin"} \X {"CIDRArray"})
    \cup ({"CIDRArray"} \X {"in", "notin", "allin"} \X {"CIDRValues"})
    \cup ({"CIDRValues"} \X {"in", "notin", "allin"} \X {"CIDR", "CIDRArray"})

\* the triples outside the table that the dispatch takes as well
FurtherTriples ==
    ({"Bool"} \X ArrayOps \X {"BoolArray"})
    \cup ({"BoolArray"} \X {"==", "!="} \X {"Bool"})
    \cup ({"Int", "IntArray"} \X ArrayOps \X {"IntArray"})
    \cup ({"StringValues"} \X ArrayOps \X {"StringArray"})
    \cup ({"CIDR"} \X ArrayOps \X {"CIDR"})
    \cup ({"String"} \X {"allin"} \X {"StringArray", "StringValues"})
    \cup ({"CIDR"} \X {"allin"} \X {"CIDRArray"})

\* the triple of the comparison just compiled
LastTriple == <<last.unary.kind, last.op, last.next.kind>>

Compared == last.act \in {"scalar", "array"}

\* C11 as claimed: a comparison whose (left kind, operator, right kind) is
\* not a row of the dispatch table fails with an error and no evaluator;
\* only rows of the table yield an evaluator.
C11_OnlyTableRows ==
    Compared =>
        /\ (last.out.err # "" => last.out.ev = NilEval)
        /\ (LastTriple \notin DispatchTable => last.out.err # "")

\* C11 amended: a comparison whose triple is neither a row of the table nor
\* one of the further triples fails with an error and no evaluator; only
\* those triples yield an evaluator, and each of them does unless the
\* right-hand side is a non-static pattern or a duration compared with
\* "==" or "!=".
C11_OnlyAcceptedTriples ==
    Compared =>
        /\ (last.out.err # "" => last.out.ev = NilEval)
        /\ (last.out.err = "" => last.out.ev.kind = "Bool")
        /\ last.out.err = "" <=>
              /\ LastTriple \in DispatchTable \cup FurtherTriples
              /\ ~(last.op \in {"=~", "!~"} /\ last.next.fn)
              /\ ~(last.op \in {"==", "!="} /\ last.next.kind = "Int"
                      /\ last.unary.kind = "Int" /\ last.next.dur)

\* "CIDRArray in CIDR" was compiled and rejected
C11_Witness ==
    /\ last.act = "array"
    /\ LastTriple = <<"CIDRArray", "in", "CIDR">>
    /\ last.out.err # ""
    /\ last.out.ev = NilEval

\* ------------------------------------------------------------ C12

OrderingOps == {"<", "<=", ">", ">="}

DurationCombinators ==
    {"DurationLesserThan", "DurationLesserOrEqualThan", "DurationGreaterThan",
     "DurationGreaterOrEqualThan"}

\* C12: "L op R" with op one of <, <=, >, >=, L an integer evaluator that
\* is not a duration and R a duration is rejected with a type error, and a
\* Duration* combinator is built only over a left operand that is a
\* duration.
C12_DurationNeedsDurationLeft ==
    last.act = "scalar" =>
        /\ (/\ last.op \in OrderingOps
            /\ last.unary.kind = "Int" /\ ~last.unary.dur
            /\ last.next.kind = "Int" /\ last.next.dur)
           => (last.out.err = "TypeError" /\ last.out.ev = NilEval)
        /\ (/\ last.out.err = ""
            /\ Core(last.out.ev).node = "comb"
            /\ Core(last.out.ev).name \in DurationCombinators)
           => last.unary.dur

\* ------------------------------------------------------------ C13

\* what each value reads as inside a string
Rendered(value) ==
    CASE value = [kind |-> "String", val |-> <<"p">>] -> <<"p">>
      [] value = [kind |-> "Int", val |-> 12] -> <<"1", "2">>
      [] value = [kind |-> "Int", val |-> 0 - 3] -> <<"-", "3">>
      [] value = [kind |-> "Int", val |-> 0] -> <<"0">>
      [] value = [kind |-> "StringArray", val |-> <<<<"p">>, <<"q", "r">>>>] ->
           <<"p", ",", "q", "r">>
      [] value = [kind |-> "StringArray", val |-> <<>>] -> <<>>
      [] value = [kind |-> "IntArray", val |-> <<1, 20>>] ->
           <<"1", ",", "2", "0">>

\* whether a reference "${...}" starts at place i of str, and where it ends
RefStartsAt(str, i) ==
    str[i] = "${" /\ \E j \in (i + 1)..Len(str) : str[j] = "}"

RefEnd(str, i) == SetMin({j \in (i + 1)..Len(str) : str[j] = "}"})

RECURSIVE Expand(_, _, _)

\* str from place i on, read left to right, each reference replaced in
\* place by its variable's value and every other lexeme kept
Expand(str, i, store) ==
    IF i > Len(str) THEN <<>>
    ELSE IF RefStartsAt(str, i)
    THEN Rendered(store[SubSeq(str, i + 1, RefEnd(str, i) - 1)])
           \o Expand(str, RefEnd(str, i) + 1, store)
    ELSE <<str[i]>> \o Expand(str, i + 1, store)

\* C13: the evaluator compiled from a string literal holding ${name}
\* references returns the literal with each reference replaced in place and
\* in source order by its variable's value (string; integer in base 10;
\* arrays joined with ","), every stretch of the literal between them kept
\* once and unchanged.
C13_InterpolationInPlace ==
    (last.act = "string" /\ last.out.err = "") =>
        last.out.val = Expand(last.str, 1, VariableStore(last.v))

\* two adjacent references, the first at the start, then a literal tail
C13_Witness ==
    /\ last.act = "string"
    /\ last.out.err = ""
    /\ last.str = <<"${", "v", "}", "${", "x", "}">>
    /\ last.v.kind = "IntArray"
    /\ last.out.val = <<"1", ",", "2", "0", "0">>

\* ------------------------------------------------------------ C14

\* C14: resolving an identifier that names a macro, as a primary or inside
\* "[...]", returns the evaluator stored for the macro and leaves the State
\* as it was: no register, registersInfo and fields unchanged, and neither
\* an iterator nor an accessor asked of the Model.
C14_MacroReturnedVerbatim ==
    [][ (last'.act \in {"ident", "array-ident"}
           /\ last'.in[1] \in DOMAIN Macros)
        => /\ last'.err = ""
           /\ last'.ev = Macros[last'.in[1]]
           /\ last'.reqs = <<>>
           /\ last'.trips = <<>>
           /\ registersInfo' = registersInfo
           /\ fields' = fields
      ]_vars

\* ------------------------------------------------------------ C15

\* the identifier without its subscripts
RECURSIVE Unsubscripted(_)

Unsubscripted(ident) ==
    IF ident = <<>> THEN <<>>
    ELSE IF Head(ident).t = "s" THEN Unsubscripted(Tail(ident))
    ELSE <<Head(ident)>> \o Unsubscripted(Tail(ident))

\* the resolved field name of an identifier: subscript stripped, legacy
\* name rewritten
ResolvedName(ident) ==
    IF Unsubscripted(ident) \in DOMAIN LegacyFields
    THEN LegacyFields[Unsubscripted(ident)]
    ELSE Unsubscripted(ident)

\* the Model returned an accessor to the resolution just made
AccessorReturned(l) ==
    /\ l.act \in {"ident", "array-ident"}
    /\ l.err = ""
    /\ l.in[1] \notin DOMAIN Constants \cup DOMAIN Macros

\* C15: a resolution for which the Model returned an accessor adds the
\* resolved field name of its identifier to state.fields and nothing else;
\* a resolution that fails, or resolves to a constant or a macro, leaves
\* state.fields as it was; no resolution removes a field.
C15_FieldsAreResolvedFields ==
    [][ /\ AccessorReturned(last')
           => /\ fields' = fields \cup {ResolvedName(last'.in[1])}
              /\ last'.reqs[1][1] = ResolvedName(last'.in[1])
        /\ ~AccessorReturned(last') => fields' = fields
      ]_vars

\* fields holds a legacy name rewritten and a subscript stripped, and the
\* last resolution asked the Model for an accessor that it did not return
C15_Witness ==
    /\ Dot(<<"p", "a", "f">>) \in fields
    /\ Dot(<<"p", "a", "g">>) \in fields
    /\ Dot(<<"p", "n">>) \in fields
    /\ last.act = "ident"
    /\ last.err = "FieldNotFound"
    /\ last.reqs # <<>>

\* where the subdomain of the request path starts: after the leading
\* slash for an evpProxyTransport, at once for an evpIntakeProxyTransport
SubdomainStart == IF evpCall.t.kind = "evpProxy" THEN 2 ELSE 1

\* the slashes of the request path that end a subdomain
SubdomainEnds ==
    {k \in SubdomainStart..Len(evpCall.req.path) :
       /\ evpCall.req.path[k] = "/"
       /\ \A j \in SubdomainStart..(k - 1) : evpCall.req.path[j] # "/"}

RequestSubdomain ==
    SubSeq(evpCall.req.path, SubdomainStart,
           (CHOOSE k \in SubdomainEnds : TRUE) - 1)

RequestTargetPath ==
    SubSeq(evpCall.req.path, CHOOSE k \in SubdomainEnds : TRUE,
           Len(evpCall.req.path))

\* the body of the request can be read to its end within the payload limit
BodyReadable ==
    \/ evpCall.req.body.nil
    \/ /\ ~evpCall.req.body.fails
       /\ \/ evpCall.t.maxPayloadSize = 0
          \/ Len(evpCall.req.body.data) < evpCall.t.maxPayloadSize

\* a request with a subdomain and a target path of allowed characters, an
\* allowed query string, and a body, if any, that can be read
ValidRequest ==
    /\ evpCall.req.url
    /\ evpCall.t.kind = "evpProxy" =>
         Len(evpCall.req.path) > 0 /\ evpCall.req.path[1] = "/"
    /\ SubdomainEnds # {}
    /\ RequestSubdomain # <<>>
    /\ Len(RequestTargetPath) > 1
    /\ isValidSubdomain(RequestSubdomain)
    /\ isValidPath(RequestTargetPath)
    /\ isValidQueryString(evpCall.req.query)
    /\ BodyReadable

\* the copy of the request that endpoint i is to get
CopyFor(i) ==
    [Host |-> RequestSubdomain
                \o (IF evpCall.t.kind = "evpProxy"
                    THEN <<".", "e", "v", "p", ".">> ELSE <<".">>)
                \o Endpoint(i).Host,
     apiKey |-> Endpoint(i).APIKey,
     path |-> RequestTargetPath,
     query |-> evpCall.req.query,
     body |-> IF evpCall.req.body.nil THEN NilBody
              ELSE Body(evpCall.req.body.data, FALSE)]

\* C16: with more than one endpoint a valid request is sent once to every
\* endpoint in the configured order, each copy with the same body and its
\* endpoint's host and API key, and the call returns the response and the
\* error of the first endpoint whatever the other endpoints answer.
C16_EveryEndpointMainResult ==
    (evpResult.status # "none" /\ evpCall.t.n > 1 /\ ValidRequest)
      => /\ evpResult.status = "returned"
         /\ evpResult.sent = [i \in 1..evpCall.t.n |-> CopyFor(i)]
         /\ evpResult.resp = TransportRoundTrip(evpCall.outcomes, 1).resp
         /\ evpResult.err = TransportRoundTrip(evpCall.outcomes, 1).err

\* what a client that buffers buf buffers once connection c is stored
BufferOne(buf, c) ==
    IF \E i \in 1..Len(buf) : buf[i].key = c.key
    THEN [i \in 1..Len(buf) |->
            IF buf[i].key = c.key
            THEN [buf[i] EXCEPT
                    !.Monotonic = AddCounters(@, c.Monotonic),
                    !.LastUpdateEpoch =
                       IF c.LastUpdateEpoch > @ THEN c.LastUpdateEpoch
                       ELSE @]
            ELSE buf[i]]
    ELSE IF Len(buf) >= maxClosedConns THEN buf
    ELSE Append(buf, c)

RECURSIVE BufferAll(_, _)
BufferAll(buf, batch) ==
    IF batch = <<>> THEN buf
    ELSE BufferAll(BufferOne(buf, Head(batch)), Tail(batch))

RECURSIVE DroppedOf(_, _)
\* how many connections of the batch that client drops
DroppedOf(buf, batch) ==
    IF batch = <<>> THEN 0
    ELSE (IF /\ \A i \in 1..Len(buf) : buf[i].key # Head(batch).key
             /\ Len(buf) >= maxClosedConns
          THEN 1 ELSE 0)
           + DroppedOf(BufferOne(buf, Head(batch)), Tail(batch))

RECURSIVE DroppedOver(_, _)
DroppedOver(ids, batch) ==
    IF ids = {} THEN 0
    ELSE LET id == CHOOSE i \in ids : TRUE
         IN DroppedOf(clients[id].closedConnections, batch)
              + DroppedOver(ids \ {id}, batch)

\* what the client had buffered before the step, nothing if it was not
\* registered
BufferedFor(id) ==
    IF id \in DOMAIN clients THEN clients[id].closedConnections ELSE <<>>

\* the connection returned for buffered connection b: b with its counters,
\* or with those of a newer active connection of its key added
ReturnedFor(conn, b, active) ==
    /\ conn.key = b.key
    /\ \/ conn.Monotonic = b.Monotonic
       \/ \E i \in 1..Len(active) :
            /\ active[i].key = b.key
            /\ active[i].LastUpdateEpoch > b.LastUpdateEpoch
            /\ conn.Monotonic = AddCounters(b.Monotonic, active[i].Monotonic)

\* C17: StoreClosedConnections buffers each connection for every client
\* registered at that moment and for no other (merged into the buffered
\* entry of its key, or dropped and counted once the client buffers
\* maxClosedConns entries); a buffered connection stays until the client's
\* GetDelta, which returns it once and empties the buffer, so that no later
\* GetDelta returns it; a client registered later starts with nothing
\* buffered and is returned active connections only.
C17_StoredOnceForRegistered ==
    [][ /\ netLast'.op = "StoreClosedConnections"
           => /\ DOMAIN clients' = DOMAIN clients
              /\ \A id \in DOMAIN clients :
                   clients'[id].closedConnections =
                     BufferAll(clients[id].closedConnections,
                               netLast'.closed)
              /\ telemetry'.closedConnDropped =
                   telemetry.closedConnDropped
                     + DroppedOver(DOMAIN clients, netLast'.closed)
        /\ netLast'.op = "GetDelta"
           => /\ Len(netLast'.conns) >= Len(BufferedFor(netLast'.id))
              /\ \A i \in 1..Len(BufferedFor(netLast'.id)) :
                   ReturnedFor(netLast'.conns[i],
                               BufferedFor(netLast'.id)[i],
                               netLast'.active)
              /\ \A i \in (Len(BufferedFor(netLast'.id)) + 1)
                            ..Len(netLast'.conns) :
                   /\ netLast'.conns[i].key
                        \in {netLast'.active[j].key :
                               j \in 1..Len(netLast'.active)}
                   /\ \A j \in 1..Len(BufferedFor(netLast'.id)) :
                        BufferedFor(netLast'.id)[j].key
                          # netLast'.conns[i].key
              /\ clients'[netLast'.id].closedConnections = <<>>
        /\ \A id \in DOMAIN clients' :
             \/ netLast'.op = "StoreClosedConnections"
             \/ netLast'.op = "GetDelta" /\ netLast'.id = id
             \/ clients'[id].closedConnections = BufferedFor(id)
      ]_vars

\* a client is returned the closed connection buffered for it while the
\* other client still buffers its own, and a connection has been dropped
C17_Witness ==
    /\ netLast.op = "GetDelta"
    /\ \E i \in 1..Len(netLast.conns) :
         netLast.conns[i].Monotonic.SentPackets
           > CounterSamples[1].SentPackets
    /\ \E id \in DOMAIN clients \ {netLast.id} :
         clients[id].closedConnections # <<>>
    /\ telemetry.closedConnDropped > 0

\* C18: in every connection that GetDelta returns, each Last counter is at
\* most the Monotonic counter it was computed from: no subtraction of a
\* stored counter has wrapped around.
C18_LastAtMostMonotonic ==
    netLast.op = "GetDelta"
      => \A i \in 1..Len(netLast.conns) :
           \A f \in CounterNames :
             netLast.conns[i].Last[f] <= netLast.conns[i].Monotonic[f]

\* C19: Targets and TargetFile return data only when the most recent
\* Update returned no error, and the error "not in a valid state"
\* otherwise; the bytes that TargetFile(path) returns come with a stored
\* meta for path that lists at least one hash, and match every hash that
\* this meta lists.
C19_OnlyVerifiedTargetFiles ==
    /\ partialLast.op \in {"Targets", "TargetFile"}
       => /\ partialLast.err = "" => partialLast.update = "ok"
          /\ partialLast.update # "ok"
               => partialLast.err = "not in a valid state"
    /\ (partialLast.op = "TargetFile" /\ partialLast.err = "")
       => /\ partialLast.path \in DOMAIN targetMetas
          /\ DOMAIN targetMetas[partialLast.path] # {}
          /\ \A algorithm \in DOMAIN targetMetas[partialLast.path] :
               targetMetas[partialLast.path][algorithm]
                 = Checksum(algorithm, partialLast.data)

\* the identifier holds a subscript without text, "[]"
HasEmptySubscript(ident) ==
    \E i \in 1..Len(ident) : ident[i].t = "s" /\ ident[i].s = ""

\* the identifier with "[_]" written for every "[]"
WithUnderscore(ident) ==
    [i \in 1..Len(ident) |->
       IF ident[i].t = "s" /\ ident[i].s = "" THEN Sub("_") ELSE ident[i]]

\* the step resolved the identifier to r: the same evaluator or error, the
\* same requests to the Model, the same registers and fields afterwards
ResolvedAs(r) ==
    /\ last'.err = r.err
    /\ last'.ev = r.ev
    /\ last'.reqs = r.reqs
    /\ last'.trips = r.trips
    /\ registersInfo' = r.st.registersInfo
    /\ fields' = r.st.fields

\* C20: an identifier written with "[]" resolves as the same identifier
\* written with "[_]" resolves from the same State with the same random
\* id: the subscript is stripped from the resolved field and the iterator
\* field, and the random id is bound to the iterator field.
C20_EmptySubscriptLikeUnderscore ==
    [][ (last'.act = "ident" /\ HasEmptySubscript(last'.in[1]))
          => ResolvedAs(IdentToEvaluator(WithUnderscore(last'.in[1]),
                                         MkState(registersInfo, fields),
                                         last'.rnd[1]))
      ]_vars

\* the number of "[X]" subscripts written in the identifier
Subscripts(ident) == Cardinality({i \in 1..Len(ident) : ident[i].t = "s"})

\* C21: resolving an identifier with more than one subscript ends with the
\* error "wrong register format", with no request to the Model and with
\* registersInfo and fields as they were.
C21_TwoSubscriptsWrongFormat ==
    [][ (last'.act = "ident" /\ Subscripts(last'.in[1]) > 1)
          => /\ last'.err = "WrongRegisterFormat"
             /\ last'.reqs = <<>>
             /\ last'.trips = <<>>
             /\ registersInfo' = registersInfo
             /\ fields' = fields
      ]_vars

\* the field that LegacyFields gives for f, or f when it has no entry
LegacyOf(f) == IF f \in DOMAIN LegacyFields THEN LegacyFields[f] ELSE f

\* C22: the resolved field and the iterator field that extractField returns
\* are rewritten each by its own LegacyFields entry, and left as they are
\* without one; the resolver works with these two, and looks the iterator
\* up under the iterator field so obtained.
C22_LegacyRewritesBothFields ==
    [][ (last'.act = "ident" /\ last'.trips # <<>>)
          => LET ex == ExtractField(last'.in[1])
             IN /\ last'.trips[1].field = LegacyOf(ex.field)
                /\ last'.trips[1].itField = LegacyOf(ex.itField)
                /\ (LegacyOf(ex.itField) # <<>>
                      /\ ~GetIterator(LegacyOf(ex.itField)))
                     <=> last'.err = "IteratorNotFound"
      ]_vars

\* the dotted prefixes of the field, by position, that are iterators of
\* the Model
Answering(field) ==
    {i \in 1..Len(Candidates(field)) : GetIterator(Candidates(field)[i])}

\* the first dotted prefix of the field that is an iterator of the Model
FirstAnswering(field) ==
    Candidates(field)[CHOOSE i \in Answering(field) :
                        \A j \in Answering(field) : i <= j]

\* C23: for an identifier without subscript, the first dotted prefix of
\* the field that is an iterator of the Model is the field of the register
\* created for the identifier; when no prefix is one, registersInfo stays as
\* it was and the accessor is requested with the empty register id.
C23_WalkedPrefixIsRegisterField ==
    [][ (last'.act = "ident" /\ Subscripts(last'.in[1]) = 0
           /\ last'.trips # <<>>)
          => LET field == last'.trips[1].field
                 rnd == last'.rnd[1]
             IN IF Answering(field) = {}
                THEN /\ registersInfo' = registersInfo
                     /\ last'.reqs = <<<<field, "">>>>
                ELSE rnd \notin DOMAIN registersInfo
                       => /\ rnd \in DOMAIN registersInfo'
                          /\ registersInfo'[rnd].field = FirstAnswering(field)
      ]_vars

\* the errors that carry the position of the AST node and the expected
\* kind or the operator: NewTypeError, NewArrayTypeError, NewCIDRTypeError
\* and NewOpUnknownError
PositionedErrors == {"TypeError", "ArrayTypeError", "CIDRTypeError", "OpUnknown"}

\* C24: a comparison that fails to compile because of the kinds of its
\* operands or of its operator (any failure but that of a pattern that is
\* not static) fails with a type error or an unknown-operator error, which
\* carry the position of the node; it never ends in the error "unknown
\* entity", which carries the empty position.
C24_KindFailuresArePositioned ==
    (last.act \in {"scalar", "array"}
       /\ last.out.err \notin {"", "NonStaticPattern"})
      => last.out.err \in PositionedErrors

\* C25: compiling a comparison leaves the evaluators of the constant table
\* and of the macro tables as they were, so that the name on the right of a
\* comparison always stands for the evaluator the table was given: a string
\* constant used with "=~" or "!~" keeps its ValueType, and "x == C"
\* afterwards is the equality with the scalar C.
C25_StoredEvaluatorsNeverModified ==
    [][ /\ tables' = tables
        /\ tablesLast'.next
             = Named([constants |-> Constants, macros |-> Macros],
                     tablesLast'.name)
      ]_vars

\* C26: an identifier inside "[...]" resolves as the same identifier
\* resolves as a primary from the same State: to the same evaluator or error
\* and with the same effects, whichever of the constant table, the macro
\* store and the Model know the name.
C26_OnePrecedenceOfNames ==
    [][ last'.act = "array-ident"
          => ResolvedAs(IdentToEvaluator(last'.in[1],
                                         MkState(registersInfo, fields),
                                         last'.rnd[1]))
      ]_vars

\* the DNS statistics buffered for the client before the step, nothing if
\* it was not registered
BufferedDNS(id) ==
    IF id \in DOMAIN clients THEN clients[id].dnsStats ELSE EmptyMap

\* C27: the DNSStats of the Delta that GetDelta returns hold every entry
\* buffered for the caller before the call, and every entry of the DNS
\* statistics passed in the call, with its counter added to the buffered
\* one of the same entry, unless the entry was dropped and dnsStatsDropped
\* incremented.
C27_PassedDNSStatsReturned ==
    [][ netLast'.op = "GetDelta"
          => /\ \A e \in DOMAIN BufferedDNS(netLast'.id) :
                  e \in DOMAIN netLast'.delta.DNSStats
             /\ \A e \in DOMAIN netLast'.dnsStats :
                  \/ /\ e \in DOMAIN netLast'.delta.DNSStats
                     /\ netLast'.delta.DNSStats[e] =
                          netLast'.dnsStats[e]
                            + (IF e \in DOMAIN BufferedDNS(netLast'.id)
                               THEN BufferedDNS(netLast'.id)[e] ELSE 0)
                  \/ telemetry'.dnsStatsDropped > telemetry.dnsStatsDropped
      ]_vars

\* the counter buffered for the client under the HTTP key before the step
BufferedHTTP(id, k) ==
    IF id \in DOMAIN clients /\ k \in DOMAIN clients[id].httpStatsDelta
    THEN requestStats[clients[id].httpStatsDelta[k]] ELSE 0

\* the counter buffered for the client under the HTTP key after the step
BufferedHTTPAfter(id, k) ==
    IF k \in DOMAIN clients'[id].httpStatsDelta
    THEN requestStats'[clients'[id].httpStatsDelta[k]] ELSE 0

\* the counter passed in the call under the HTTP key
PassedHTTP(k) ==
    IF k \in DOMAIN netLast'.httpStats THEN netLast'.httpStats[k] ELSE 0

\* the counter of the returned Delta under the HTTP key
ReturnedHTTP(k) ==
    IF k \in DOMAIN netLast'.delta.values THEN netLast'.delta.values[k] ELSE 0

\* C28: a GetDelta that drops no HTTP statistics returns to its caller, for
\* every key, what was buffered for the caller plus what the call passes,
\* and adds what the call passes, once, to what is buffered for every
\* other client; the Delta returned by the call before holds afterwards
\* what it held when it was returned.
C28_HTTPStatsCountedOnce ==
    [][ (netLast'.op = "GetDelta"
           /\ telemetry'.httpStatsDropped = telemetry.httpStatsDropped)
          => /\ \A i \in 1..Len(HTTPKeys) :
                  /\ ReturnedHTTP(HTTPKeys[i]) =
                       BufferedHTTP(netLast'.id, HTTPKeys[i])
                         + PassedHTTP(HTTPKeys[i])
                  /\ \A c \in DOMAIN clients' \ {netLast'.id} :
                       BufferedHTTPAfter(c, HTTPKeys[i]) =
                         BufferedHTTP(c, HTTPKeys[i]) + PassedHTTP(HTTPKeys[i])
             /\ \A k \in DOMAIN netLast'.earlier.HTTP :
                  requestStats'[netLast'.earlier.HTTP[k]] =
                    netLast'.earlier.values[k]
      ]_vars

\* C29: every client buffers at most maxHTTPStats keys of HTTP statistics,
\* at most maxDNSStats entries of DNS statistics, at most maxClientStats
\* keys of stats and at most maxClosedConns closed connections.
C29_BuffersWithinLimits ==
    \A id \in DOMAIN clients :
      /\ Cardinality(DOMAIN clients[id].httpStatsDelta) <= maxHTTPStats
      /\ Cardinality(DOMAIN clients[id].dnsStats) <= maxDNSStats
      /\ Cardinality(DOMAIN clients[id].stats) <= maxClientStats
      /\ Len(clients[id].closedConnections) <= maxClosedConns

\* a client buffers as much as each limit allows, statistics beyond a limit
\* having been dropped and counted
C29_Witness ==
    /\ \E id \in DOMAIN clients :
         /\ Cardinality(DOMAIN clients[id].httpStatsDelta) = maxHTTPStats
         /\ Cardinality(DOMAIN clients[id].dnsStats) = maxDNSStats
         /\ Cardinality(DOMAIN clients[id].stats) = maxClientStats
         /\ Len(clients[id].closedConnections) = maxClosedConns
    /\ netLast.op = "GetDelta"
    /\ telemetry.dnsStatsDropped + telemetry.httpStatsDropped > 0


\* the step is an Update that returns an error (no other step leaves
\* "Update" as the last call)
UpdateFailed ==
    /\ partialLast'.op = "Update"
    /\ partialLast'.err # ""

\* C30: an Update that returns an error leaves what the client reports as
\* it was: the RootVersion and TargetsVersion of State(), the stored target
\* metadata and the stored target files are the same after it as before.
C30_FailedUpdateChangesNothing ==
    [][UpdateFailed
         => UNCHANGED <<rootVersion, targetsVersion, targetMetas,
                        targetFiles>>]_vars

====
